---- MODULE Spec2Model ----
(***************************************************************************)
(* The identifier allocation and persistence layer of the chat             *)
(* application: the counters, conversations, prompts and admin_codes       *)
(* collections of the MongoDB store, the operations of utils/database.py   *)
(* on them, the chat page's handlers, and the repair scripts               *)
(* (fix_duplicate_ids.py, cleanup_conversations.py).                       *)
(*                                                                         *)
(* One store operation (find_one_and_update, insert_one, update_one,       *)
(* delete_one, find) is one atomic step; a function of the source that     *)
(* makes several store operations is a sequence of steps that other        *)
(* processes may interleave with.                                          *)
(***************************************************************************)
EXTENDS Integers, Sequences, FiniteSets, TLC

\* ------------------------------------------------------------------ bounds

\* save_conversation allocations made in one behaviour.
MaxSaves == 2
\* save_prompt allocations made in one behaviour.
MaxPromptSaves == 3
\* Runs of fix_duplicate_ids.py, one after the other, on a legacy dataset.
MaxFixRuns == 2

\* ------------------------------------------------------ program constants

\* f"C{...:03d}" / f"P{...:03d}": the zero-padding width of a displayed ID.
PadWidth == 3
\* cleanup_conversations keeps C001 .. C010: range(1, 11).
KeepUpTo == 10
\* count_message_tokens: role_overhead = 4.
role_overhead == 4

\* ------------------------------------------------------------- the domain

\* User codes (5-character access codes).
Users == {"AB12C", "XY34Z"}
\* Worker processes / browser sessions that call utils/database.py.
Procs == {"p1", "p2"}
\* The user logged in to each session.
UserOf(p) == IF p = "p1" THEN "AB12C" ELSE "XY34Z"
\* Python's None, for an ID or a code.
None == <<>>
\* len(encoding.encode(text)) for the message contents used: a token count
\* per text, standing for what the o200k_base encoding gives.
encode_len(text) ==
  CASE text = "" -> 0
    [] text = "Hi" -> 1
    [] text = "Explain photosynthesis" -> 3
    [] OTHER -> 2

\* The counter documents of db.counters, by _id.
ConversationKey == <<"conversation_id">>
PromptKey(user_code) == <<"prompt_id_", user_code>>
CounterKeys == {ConversationKey} \cup {PromptKey(u) : u \in Users}

\* -------------------------------------------------------------- ID format

\* The decimal digits of n, most significant first: str(n).
RECURSIVE Digits(_)
Digits(n) == IF n < 10 THEN <<n>> ELSE Append(Digits(n \div 10), n % 10)

\* f"{n:03d}": zero-padded on the left to PadWidth digits, longer numbers whole.
ZeroPad(n) ==
  LET ds == Digits(n)
  IN  IF Len(ds) >= PadWidth THEN ds
      ELSE [i \in 1..(PadWidth - Len(ds)) |-> 0] \o ds

\* f"C{n:03d}", f"P{n:03d}": the prefix letter, then the padded digits.
FormatId(prefix, n) == <<prefix>> \o ZeroPad(n)

\* --------------------------------------------------------- token_counter

\* count_tokens(text): 0 for an empty text.
count_tokens(text) == IF text = "" THEN 0 ELSE encode_len(text)

\* count_message_tokens(role, content): content tokens plus the overhead.
count_message_tokens(role, content) ==
  IF content = "" THEN 0 ELSE encode_len(content) + role_overhead

RECURSIVE SumTokens(_, _)
SumTokens(messages, roles) ==
  IF messages = <<>> THEN 0
  ELSE LET m == messages[1]
           t == count_message_tokens(m.role, m.content)
       IN  (IF m.role \in roles THEN t ELSE 0) + SumTokens(Tail(messages), roles)

\* Only "user" adds to total_input_tokens.
InputRolesUserOnly == {"user"}

\* Input roles: "user" and "system" add to total_input_tokens.
InputRoles == {"user", "system"}
\* Output roles: "assistant" adds to total_output_tokens.
OutputRoles == {"assistant"}

\* count_conversation_tokens(messages).
count_conversation_tokens(messages) ==
  [ total_input_tokens  |-> SumTokens(messages, InputRoles),
    total_output_tokens |-> SumTokens(messages, OutputRoles),
    message_tokens      |-> [i \in 1..Len(messages) |->
                               [ role        |-> messages[i].role,
                                 content     |-> messages[i].content,
                                 token_count |-> count_message_tokens(
                                                   messages[i].role,
                                                   messages[i].content) ]] ]

\* The messages as stored: each with the token_count of its own entry.
messages_with_tokens(messages) ==
  LET token_stats == count_conversation_tokens(messages)
  IN  [i \in 1..Len(messages) |->
         [ role        |-> messages[i].role,
           content     |-> messages[i].content,
           token_count |-> token_stats.message_tokens[i].token_count ]]

\* The token_stats sub-document that save/update_conversation store.
stored_token_stats(messages) ==
  LET token_stats == count_conversation_tokens(messages)
  IN  [ total_input_tokens  |-> token_stats.total_input_tokens,
        total_output_tokens |-> token_stats.total_output_tokens ]

\* ------------------------------------------------------------------ state

VARIABLES
  counters,       \* db.counters: key -> sequence (0: no document yet)
  conversations,  \* db.conversations: the documents
  prompts,        \* db.prompts: the documents
  admin_codes,    \* db.admin_codes: the documents
  now,            \* datetime.utcnow(), a logical clock
  pc,             \* per process: where it stands inside a save_* call
  loc,            \* per process: the locals of the call (next_id, user_code, ...)
  ret,            \* per process: what its last call returned
  issued,         \* every sequence number a find_one_and_update has returned
  base,           \* the counters before the first allocation
  fixc,           \* fix_conversation_ids: its locals
  fixp,           \* fix_prompt_ids: its locals
  cleanup,        \* cleanup_conversations: its locals
  session,        \* per process: st.session_state of the chat page
  users,          \* db.users: the documents
  logs,           \* db.logs: the documents
  auth            \* per process: st.session_state of the login

vars == << counters, conversations, prompts, admin_codes, now, pc, loc, ret,
           issued, base, fixc, fixp, cleanup, session, users, logs, auth >>

\* ------------------------------------------------------- store primitives

\* The counter written instead of incremented: {"$set": {"sequence": 1}}.
find_one_and_update_set(ctrs, key) == [ctrs EXCEPT ![key] = 1]

\* find_one_and_update({"_id": key}, {"$inc": {"sequence": 1}}, upsert=True):
\* the counters after it. A missing document counts from 0.
find_one_and_update_inc(ctrs, key) == [ctrs EXCEPT ![key] = @ + 1]

\* The document before the update (return_document left at its default).
returned_sequence_before(ctrs, key) == ctrs[key]

\* return_document=True: the document after the update; its "sequence".
returned_sequence(ctrs, key) == find_one_and_update_inc(ctrs, key)[key]

keep_sequence(ctrs, key, n) == ctrs

\* update_one({"_id": key}, {"$set": {"sequence": n}}, upsert=True).
set_sequence(ctrs, key, n) == [ctrs EXCEPT ![key] = n]

\* update_one({"_id": oid}, {"$set": {field: value}}) on a collection.
update_one_by_id(coll, oid, field, value) ==
  [j \in DOMAIN coll |->
     IF coll[j]._id = oid THEN [coll[j] EXCEPT ![field] = value] ELSE coll[j]]

\* Its result.modified_count: 1 when the document exists and changed.
modified_count(coll, oid, field, value) ==
  IF \E j \in DOMAIN coll : coll[j]._id = oid /\ coll[j][field] # value
  THEN 1 ELSE 0

\* delete_one({"_id": oid}): the collection without that document.
delete_one_by_id(coll, oid) == SelectSeq(coll, LAMBDA d : d._id # oid)

\* Its result.deleted_count.
deleted_count(coll, oid) ==
  IF \E j \in DOMAIN coll : coll[j]._id = oid THEN 1 ELSE 0

\* The character code of a prefix letter: ord(ch).
Ord(ch) == IF ch = "C" THEN 67 ELSE 80

\* a < b for two digit strings, character by character.
RECURSIVE DigitsLess(_, _)
DigitsLess(a, b) ==
  IF b = <<>> THEN FALSE
  ELSE IF a = <<>> THEN TRUE
  ELSE IF a[1] # b[1] THEN a[1] < b[1]
  ELSE DigitsLess(Tail(a), Tail(b))

\* a < b for two ID strings, as the store sorts them; a missing ID (None)
\* sorts first.
StringLess(a, b) ==
  IF b = None THEN FALSE
  ELSE IF a = None THEN TRUE
  ELSE IF a[1] # b[1] THEN Ord(a[1]) < Ord(b[1])
  ELSE DigitsLess(Tail(a), Tail(b))

\* The order of two documents under sort(field, 1).
DocLess(field, a, b) ==
  IF field = "conversation_id"
  THEN StringLess(a.conversation_id, b.conversation_id)
  ELSE a.created_at < b.created_at

\* One document put into a sorted sequence, after the documents not above it.
RECURSIVE InsertInto(_, _, _)
InsertInto(sorted, d, field) ==
  IF sorted = <<>> THEN <<d>>
  ELSE IF DocLess(field, d, sorted[1]) THEN <<d>> \o sorted
  ELSE <<sorted[1]>> \o InsertInto(Tail(sorted), d, field)

\* find().sort(field, 1): the documents in ascending order of the field.
RECURSIVE SortDocs(_, _)
SortDocs(coll, field) ==
  IF coll = <<>> THEN <<>>
  ELSE InsertInto(SortDocs(SubSeq(coll, 1, Len(coll) - 1), field),
                  coll[Len(coll)], field)

\* ------------------------------------------------------ save_conversation

\* The locals of a process outside any call.
NoLocals == [ next_id |-> None, user_code |-> None, prompt_id |-> None,
              messages |-> <<>> ]
\* What a process has returned before its first call.
NoReturn == [ op |-> "none", value |-> None ]

\* conversation_data of save_conversation, inserted at time t.
conversation_data(next_id, user_code, prompt_id, messages, t) ==
  [ _id             |-> t,
    conversation_id |-> next_id,
    user_code       |-> user_code,
    prompt_id       |-> prompt_id,
    messages        |-> messages_with_tokens(messages),
    token_stats     |-> stored_token_stats(messages),
    created_at      |-> t,
    updated_at      |-> t ]

\* The message list start_new_conversation builds: one system message.
SystemOnly(content) == << [ role |-> "system", content |-> content ] >>

\* save_conversation, first store operation: the atomic find-and-increment
\* of the "conversation_id" counter; next_id = f"C{result['sequence']:03d}".
SaveConversationAllocate(p, user_code, prompt_id, messages) ==
  /\ pc[p] = "idle"
  /\ Len(issued) < MaxSaves
  /\ counters' = find_one_and_update_inc(counters, ConversationKey)
  /\ loc' = [loc EXCEPT ![p] =
               [ next_id   |-> FormatId("C", returned_sequence(counters, ConversationKey)),
                 user_code |-> user_code,
                 prompt_id |-> prompt_id,
                 messages  |-> messages ]]
  /\ issued' = Append(issued,
                 [ proc |-> p, key |-> ConversationKey,
                   sequence |-> returned_sequence(counters, ConversationKey) ])
  /\ pc' = [pc EXCEPT ![p] = "insert_conversation"]
  /\ UNCHANGED << conversations, prompts, admin_codes, now, ret, base,
                  fixc, fixp, cleanup, session,
                  users, logs, auth >>

\* save_conversation, second store operation: insert_one succeeds and the
\* call returns next_id. What the caller makes of the returned ID
\* (st.session_state) is the caller's part of the step.
SaveConversationInsert(p) ==
  /\ pc[p] = "insert_conversation"
  /\ conversations' = Append(conversations,
       conversation_data(loc[p].next_id, loc[p].user_code, loc[p].prompt_id,
                         loc[p].messages, now))
  /\ now' = now + 1
  /\ ret' = [ret EXCEPT ![p] = [ op |-> "save_conversation", value |-> loc[p].next_id ]]
  /\ pc' = [pc EXCEPT ![p] = "idle"]
  /\ loc' = [loc EXCEPT ![p] = NoLocals]
  /\ UNCHANGED << counters, prompts, admin_codes, issued, base, fixc, fixp,
                  cleanup,
                  users, logs, auth >>

\* save_conversation, second store operation: insert_one raises; the except
\* branch returns None and the counter keeps its increment.
SaveConversationInsertFails(p) ==
  /\ pc[p] = "insert_conversation"
  /\ ret' = [ret EXCEPT ![p] = [ op |-> "save_conversation", value |-> None ]]
  /\ pc' = [pc EXCEPT ![p] = "idle"]
  /\ loc' = [loc EXCEPT ![p] = NoLocals]
  /\ UNCHANGED << counters, conversations, prompts, admin_codes, now, issued,
                  base, fixc, fixp, cleanup, session,
                  users, logs, auth >>

\* --------------------------------------------------- fix_conversation_ids

\* The locals of a repair script that is not running. "writes" counts the
\* update_one calls the run has issued on records, "earlier_writes" those of
\* the runs before it, "runs" the runs started.
ScriptIdle == [ pc |-> "idle", docs |-> <<>>, i |-> 0, used_ids |-> {},
                duplicate_count |-> 0, renumbered_count |-> 0, writes |-> 0,
                earlier_writes |-> 0, runs |-> 0 ]

\* The locals of fix_prompt_ids when it is not running: the groups read, the
\* position g of the outer loop among them, and the inner loop's locals.
PromptScriptIdle == [ pc |-> "idle", user_prompts |-> <<>>, g |-> 1, i |-> 0,
                      used_ids |-> {}, duplicate_count |-> 0,
                      renumbered_count |-> 0, writes |-> 0,
                      earlier_writes |-> 0, runs |-> 0 ]

\* new_id = f"C{i:03d}" / f"P{i:03d}": numbered from 0.
new_id_from_zero(prefix, i) == FormatId(prefix, i)

\* new_id = f"C{i+1:03d}" / f"P{i+1:03d}" for the i-th record, i from 0.
new_id_for(prefix, i) == FormatId(prefix, i + 1)

\* fix_conversation_ids, the read: every conversation sorted by created_at.
\* With none it returns at once and leaves the counter alone.
FixConversationsRead ==
  /\ fixc.pc = "idle"
  /\ LET found == SortDocs(conversations, "created_at")
     IN  fixc' = [ ScriptIdle EXCEPT
                     !.pc = IF found = <<>> THEN "done" ELSE "loop",
                     !.docs = found,
                     !.earlier_writes = fixc.earlier_writes + fixc.writes,
                     !.runs = fixc.runs + 1 ]
  /\ UNCHANGED << counters, conversations, prompts, admin_codes, now, pc, loc,
                  ret, issued, base, fixp, cleanup, session,
                  users, logs, auth >>

\* fix_conversation_ids, one turn of the loop over the records read.
FixConversationsStep ==
  /\ fixc.pc = "loop"
  /\ LET conv       == fixc.docs[fixc.i + 1]
         current_id == conv.conversation_id
         new_id     == new_id_for("C", fixc.i)
         duplicate  == current_id \in fixc.used_ids
         write      == duplicate \/ current_id # new_id
         modified   == modified_count(conversations, conv._id, "conversation_id", new_id)
     IN  /\ conversations' =
              IF write
              THEN update_one_by_id(conversations, conv._id, "conversation_id", new_id)
              ELSE conversations
         /\ fixc' = [ fixc EXCEPT
              !.i = @ + 1,
              !.used_ids = IF duplicate THEN @ ELSE @ \cup {current_id},
              !.duplicate_count = IF duplicate THEN @ + 1 ELSE @,
              !.renumbered_count = IF write THEN @ + modified ELSE @,
              !.writes = IF write THEN @ + 1 ELSE @,
              !.pc = IF fixc.i + 1 = Len(fixc.docs) THEN "counter" ELSE "loop" ]
  /\ UNCHANGED << counters, prompts, admin_codes, now, pc, loc, ret, issued,
                  base, fixp, cleanup, session,
                  users, logs, auth >>

\* fix_conversation_ids, the end: the counter is set to the number of
\* conversations read.
FixConversationsSetCounter ==
  /\ fixc.pc = "counter"
  /\ counters' = set_sequence(counters, ConversationKey, Len(fixc.docs))
  /\ fixc' = [fixc EXCEPT !.pc = "done"]
  /\ UNCHANGED << conversations, prompts, admin_codes, now, pc, loc, ret,
                  issued, base, fixp, cleanup, session,
                  users, logs, auth >>

\* -------------------------------------------------- cleanup_conversations

\* The locals of cleanup_conversations when it is not running.
CleanupIdle == [ pc |-> "idle", conversations_to_keep |-> <<>>,
                 conversations_to_delete |-> <<>>, deleted_count |-> 0,
                 runs |-> 0 ]

\* [f"C{i:03d}" for i in range(1, 11)].
KeptIds == { FormatId("C", i) : i \in 1..KeepUpTo }

\* conv_id and conv_id in [...]: a record with such an ID is kept.
is_kept(conv) == conv.conversation_id # None /\ conv.conversation_id \in KeptIds

\* cleanup_conversations, the read: every conversation sorted by
\* conversation_id, split into those to keep and those to delete. With none
\* it returns at once.
CleanupRead ==
  /\ cleanup.pc = "idle"
  /\ LET all_conversations == SortDocs(conversations, "conversation_id")
         to_delete == SelectSeq(all_conversations, LAMBDA c : ~is_kept(c))
     IN  cleanup' = [ CleanupIdle EXCEPT
            !.pc = IF all_conversations = <<>> THEN "done"
                   ELSE IF to_delete = <<>> THEN "counter" ELSE "delete",
            !.conversations_to_keep = SelectSeq(all_conversations, is_kept),
            !.conversations_to_delete = to_delete,
            !.runs = cleanup.runs + 1 ]
  /\ UNCHANGED << counters, conversations, prompts, admin_codes, now, pc, loc,
                  ret, issued, base, fixc, fixp, session,
                  users, logs, auth >>

\* cleanup_conversations, one delete_one of the loop.
CleanupDelete ==
  /\ cleanup.pc = "delete"
  /\ LET conv == cleanup.conversations_to_delete[1]
     IN  /\ conversations' = delete_one_by_id(conversations, conv._id)
         /\ cleanup' = [ cleanup EXCEPT
              !.conversations_to_delete = Tail(@),
              !.deleted_count = @ + deleted_count(conversations, conv._id),
              !.pc = IF Len(cleanup.conversations_to_delete) = 1
                     THEN "counter" ELSE "delete" ]
  /\ UNCHANGED << counters, prompts, admin_codes, now, pc, loc, ret, issued,
                  base, fixc, fixp, session,
                  users, logs, auth >>

\* cleanup_conversations, the end: the counter is set to the number of
\* conversations kept.
CleanupSetCounter ==
  /\ cleanup.pc = "counter"
  /\ counters' = set_sequence(counters, ConversationKey,
                              Len(cleanup.conversations_to_keep))
  /\ cleanup' = [cleanup EXCEPT !.pc = "done"]
  /\ UNCHANGED << conversations, prompts, admin_codes, now, pc, loc, ret,
                  issued, base, fixc, fixp, session,
                  users, logs, auth >>

\* ------------------------------------- the live store: conversation IDs

\* The conversations a store holds after n successful save_conversation
\* calls on an empty store.
SavedConversations(n) ==
  [ i \in 1..n |->
      conversation_data(FormatId("C", i), "AB12C", FormatId("P", 1),
                        SystemOnly("Explain photosynthesis"), i) ]

\* The numbers of conversations the store starts with.
InitialCounts == {0, KeepUpTo}

\* The chat page's session state before a conversation is chosen.
NoSession == [ current_conversation |-> None, current_prompt |-> None,
               messages |-> <<>> ]

\* st.session_state of the login before any login: Home.py sets
\* authenticated = False and user_code = None.
NoAuth == [ authenticated |-> FALSE, user_code |-> None,
            needs_consent |-> FALSE, temp_code |-> None ]

Init ==
  /\ \E k \in InitialCounts :
       /\ conversations = SavedConversations(k)
       /\ counters = [key \in CounterKeys |->
                        IF key = ConversationKey THEN k ELSE 0]
       /\ now = k + 1
  /\ base = counters
  /\ prompts = <<>>
  /\ admin_codes = <<>>
  /\ pc = [p \in Procs |-> "idle"]
  /\ loc = [p \in Procs |-> NoLocals]
  /\ ret = [p \in Procs |-> NoReturn]
  /\ issued = <<>>
  /\ fixc = ScriptIdle
  /\ fixp = PromptScriptIdle
  /\ cleanup = CleanupIdle
  /\ session = [p \in Procs |-> NoSession]
  /\ users = <<>>
  /\ logs = <<>>
  /\ auth = [p \in Procs |-> NoAuth]

SaveConversation ==
  \E p \in Procs :
    \/ SaveConversationAllocate(p, UserOf(p), FormatId("P", 1),
                                SystemOnly("Explain photosynthesis"))
    \/ SaveConversationInsert(p) /\ UNCHANGED session
    \/ SaveConversationInsertFails(p)

FixConversationIds ==
  \/ FixConversationsRead
  \/ FixConversationsStep
  \/ FixConversationsSetCounter

CleanupConversations ==
  \/ CleanupRead
  \/ CleanupDelete
  \/ CleanupSetCounter

Next ==
  \/ SaveConversation
  \/ FixConversationIds
  \/ CleanupConversations

Spec == Init /\ [][Next]_vars

\* ------------------------------------------------------------ save_prompt

\* document_token_count: the sum of count_tokens(doc.get('content', '')).
RECURSIVE document_tokens(_)
document_tokens(documents) ==
  IF documents = <<>> THEN 0
  ELSE count_tokens(documents[1].content) + document_tokens(Tail(documents))

\* prompt_data of save_prompt, inserted at time t.
prompt_data(next_id, user_code, content, documents, t) ==
  [ _id                  |-> t,
    prompt_id            |-> next_id,
    user_code            |-> user_code,
    content              |-> content,
    documents            |-> documents,
    prompt_token_count   |-> count_tokens(content),
    document_token_count |-> document_tokens(documents),
    total_token_count    |-> count_tokens(content) + document_tokens(documents),
    created_at           |-> t,
    updated_at           |-> t ]

\* save_prompt, first store operation: the atomic find-and-increment of the
\* user's "prompt_id_<user_code>" counter; next_id = f"P{result['sequence']:03d}".
SavePromptAllocate(p, user_code, content, documents) ==
  /\ pc[p] = "idle"
  /\ Len(issued) < MaxPromptSaves
  /\ counters' = find_one_and_update_inc(counters, PromptKey(user_code))
  /\ loc' = [loc EXCEPT ![p] =
               [ next_id   |-> FormatId("P", returned_sequence(counters, PromptKey(user_code))),
                 user_code |-> user_code,
                 content   |-> content,
                 documents |-> documents ]]
  /\ issued' = Append(issued,
                 [ proc |-> p, key |-> PromptKey(user_code),
                   sequence |-> returned_sequence(counters, PromptKey(user_code)) ])
  /\ pc' = [pc EXCEPT ![p] = "insert_prompt"]
  /\ UNCHANGED << conversations, prompts, admin_codes, now, ret, base,
                  fixc, fixp, cleanup, session,
                  users, logs, auth >>

\* save_prompt, second store operation: insert_one succeeds and the call
\* returns next_id.
SavePromptInsert(p) ==
  /\ pc[p] = "insert_prompt"
  /\ prompts' = Append(prompts,
       prompt_data(loc[p].next_id, loc[p].user_code, loc[p].content,
                   loc[p].documents, now))
  /\ now' = now + 1
  /\ ret' = [ret EXCEPT ![p] = [ op |-> "save_prompt", value |-> loc[p].next_id ]]
  /\ pc' = [pc EXCEPT ![p] = "idle"]
  /\ loc' = [loc EXCEPT ![p] = NoLocals]
  /\ UNCHANGED << counters, conversations, admin_codes, issued, base, fixc,
                  fixp, cleanup, session,
                  users, logs, auth >>

\* save_prompt, second store operation: insert_one raises; the except branch
\* returns None and the counter keeps its increment.
SavePromptInsertFails(p) ==
  /\ pc[p] = "insert_prompt"
  /\ ret' = [ret EXCEPT ![p] = [ op |-> "save_prompt", value |-> None ]]
  /\ pc' = [pc EXCEPT ![p] = "idle"]
  /\ loc' = [loc EXCEPT ![p] = NoLocals]
  /\ UNCHANGED << counters, conversations, prompts, admin_codes, now, issued,
                  base, fixc, fixp, cleanup, session,
                  users, logs, auth >>

\* --------------------------------------------------------- fix_prompt_ids

\* The user codes in the order sort("user_code", 1) gives them.
SortedUsers == << "AB12C", "XY34Z" >>

\* The prompts of one user, in the order read.
PromptsOf(docs, user_code) == SelectSeq(docs, LAMBDA d : d.user_code = user_code)

\* user_prompts: the prompts read, grouped by user in the order of
\* sort([("user_code", 1), ("created_at", 1)]); a user with no prompt has no
\* group.
RECURSIVE GroupByUser(_, _)
GroupByUser(docs, user_codes) ==
  IF user_codes = <<>> THEN <<>>
  ELSE LET own == PromptsOf(docs, user_codes[1])
       IN  (IF own = <<>> THEN <<>>
            ELSE << [ user_code |-> user_codes[1], user_prompt_list |-> own ] >>)
           \o GroupByUser(docs, Tail(user_codes))

\* fix_prompt_ids, the read. With no prompt it returns at once.
FixPromptsRead ==
  /\ fixp.pc = "idle"
  /\ LET found == GroupByUser(SortDocs(prompts, "created_at"), SortedUsers)
     IN  fixp' = [ PromptScriptIdle EXCEPT
                     !.pc = IF found = <<>> THEN "done" ELSE "loop",
                     !.user_prompts = found,
                     !.earlier_writes = fixp.earlier_writes + fixp.writes,
                     !.runs = fixp.runs + 1 ]
  /\ UNCHANGED << counters, conversations, prompts, admin_codes, now, pc, loc,
                  ret, issued, base, fixc, cleanup, session,
                  users, logs, auth >>

\* fix_prompt_ids, one turn of the inner loop over the current user's prompts.
FixPromptsStep ==
  /\ fixp.pc = "loop"
  /\ LET user_prompt_list == fixp.user_prompts[fixp.g].user_prompt_list
         prompt     == user_prompt_list[fixp.i + 1]
         current_id == prompt.prompt_id
         new_id     == new_id_for("P", fixp.i)
         duplicate  == current_id \in fixp.used_ids
         write      == duplicate \/ current_id # new_id
         modified   == modified_count(prompts, prompt._id, "prompt_id", new_id)
     IN  /\ prompts' =
              IF write
              THEN update_one_by_id(prompts, prompt._id, "prompt_id", new_id)
              ELSE prompts
         /\ fixp' = [ fixp EXCEPT
              !.i = @ + 1,
              !.used_ids = IF duplicate THEN @ ELSE @ \cup {current_id},
              !.duplicate_count = IF duplicate THEN @ + 1 ELSE @,
              !.renumbered_count = IF write THEN @ + modified ELSE @,
              !.writes = IF write THEN @ + 1 ELSE @,
              !.pc = IF fixp.i + 1 = Len(user_prompt_list) THEN "counter" ELSE "loop" ]
  /\ UNCHANGED << counters, conversations, admin_codes, now, pc, loc, ret,
                  issued, base, fixc, cleanup, session,
                  users, logs, auth >>

\* fix_prompt_ids, after a user's prompts: that user's counter is set to the
\* number of prompts read for the user, and the outer loop moves on.
FixPromptsSetCounter ==
  /\ fixp.pc = "counter"
  /\ counters' = set_sequence(counters,
                              PromptKey(fixp.user_prompts[fixp.g].user_code),
                              Len(fixp.user_prompts[fixp.g].user_prompt_list))
  /\ fixp' = [ fixp EXCEPT
       !.g = @ + 1,
       !.i = 0,
       !.used_ids = {},
       !.pc = IF fixp.g = Len(fixp.user_prompts) THEN "done" ELSE "loop" ]
  /\ UNCHANGED << conversations, prompts, admin_codes, now, pc, loc, ret,
                  issued, base, fixc, cleanup, session,
                  users, logs, auth >>

\* ----------------------------------------------- the live store: prompt IDs

InitPrompt ==
  /\ conversations = <<>>
  /\ prompts = <<>>
  /\ counters = [key \in CounterKeys |-> 0]
  /\ now = 1
  /\ base = counters
  /\ admin_codes = <<>>
  /\ pc = [p \in Procs |-> "idle"]
  /\ loc = [p \in Procs |-> NoLocals]
  /\ ret = [p \in Procs |-> NoReturn]
  /\ issued = <<>>
  /\ fixc = ScriptIdle
  /\ fixp = PromptScriptIdle
  /\ cleanup = CleanupIdle
  /\ session = [p \in Procs |-> NoSession]
  /\ users = <<>>
  /\ logs = <<>>
  /\ auth = [p \in Procs |-> NoAuth]

SavePrompt ==
  \E p \in Procs :
    \/ \E user_code \in Users :
         SavePromptAllocate(p, user_code, "Explain photosynthesis", <<>>)
    \/ SavePromptInsert(p)
    \/ SavePromptInsertFails(p)

FixPromptIds ==
  \/ FixPromptsRead
  \/ FixPromptsStep
  \/ FixPromptsSetCounter

NextPrompt ==
  \/ SavePrompt
  \/ FixPromptIds

SpecPrompt == InitPrompt /\ [][NextPrompt]_vars

\* ----------------------------------------------------- update_conversation

\* The last datetime.utcnow() tick of a behaviour of the chat page.
MaxClock == 6

\* user_code left out of a call: None, the parameter's default. Like "", it
\* is falsy at "if user_code:".
NoUserCode == ""

\* A query that filters by conversation_id alone, whatever the user_code.
query_by_id(doc, conversation_id, user_code) ==
  doc.conversation_id = conversation_id

\* query = {"conversation_id": conversation_id}, and query["user_code"] =
\* user_code "if user_code:": whether a document matches it.
query_matches(doc, conversation_id, user_code) ==
  /\ doc.conversation_id = conversation_id
  /\ (user_code # NoUserCode => doc.user_code = user_code)

\* The position of the document update_one / find_one acts on: the first
\* match, 0 when nothing matches.
first_match(coll, conversation_id, user_code) ==
  LET hits == { j \in DOMAIN coll :
                  query_matches(coll[j], conversation_id, user_code) }
  IN  IF hits = {} THEN 0 ELSE CHOOSE j \in hits : \A h \in hits : j <= h

update_conversation_merging(coll, conversation_id, messages, user_code, t) ==
  LET j      == first_match(coll, conversation_id, user_code)
      merged == IF j = 0 THEN messages
                ELSE [ i \in 1..Len(coll[j].messages) |->
                         [ role    |-> coll[j].messages[i].role,
                           content |-> coll[j].messages[i].content ] ]
                     \o SubSeq(messages, Len(messages) - 1, Len(messages))
      after  == IF j = 0 THEN coll
                ELSE [coll EXCEPT ![j] =
                        [@ EXCEPT !.messages    = messages_with_tokens(merged),
                                  !.token_stats = stored_token_stats(merged),
                                  !.updated_at  = t]]
  IN  [ conversations |-> after, result |-> after # coll ]

\* update_conversation(conversation_id, messages, user_code) at time t: the
\* collection after its update_one, and its return value,
\* result.modified_count > 0.
update_conversation(coll, conversation_id, messages, user_code, t) ==
  LET j       == first_match(coll, conversation_id, user_code)
      updated == [coll EXCEPT ![j] =
                    [@ EXCEPT !.messages    = messages_with_tokens(messages),
                              !.token_stats = stored_token_stats(messages),
                              !.updated_at  = t]]
      after   == IF j = 0 THEN coll ELSE updated
  IN  [ conversations |-> after, result |-> after # coll ]

\* get_conversation_messages(conversation_id, user_code): the stored messages
\* of the user's conversation, [] when there is none.
get_conversation_messages(coll, conversation_id, user_code) ==
  LET hits == { j \in DOMAIN coll :
                  /\ coll[j].conversation_id = conversation_id
                  /\ coll[j].user_code = user_code }
  IN  IF hits = {} THEN <<>>
      ELSE coll[CHOOSE j \in hits : \A h \in hits : j <= h].messages

\* get_prompt_with_documents(prompt_id, user_code): the position of the
\* user's prompt, 0 when there is none.
get_prompt_with_documents(coll, prompt_id, user_code) ==
  LET hits == { j \in DOMAIN coll :
                  /\ coll[j].prompt_id = prompt_id
                  /\ coll[j].user_code = user_code }
  IN  IF hits = {} THEN 0 ELSE CHOOSE j \in hits : \A h \in hits : j <= h

\* A direct call of update_conversation by process p: one update_one.
UpdateConversation(p, conversation_id, messages, user_code) ==
  /\ pc[p] = "idle"
  /\ now < MaxClock
  /\ LET r == update_conversation(conversations, conversation_id, messages,
                                  user_code, now)
     IN  /\ conversations' = r.conversations
         /\ ret' = [ret EXCEPT ![p] =
                      [ op |-> "update_conversation", value |-> r.result,
                        conversation_id |-> conversation_id,
                        user_code |-> user_code ]]
  /\ now' = now + 1
  /\ UNCHANGED << counters, prompts, admin_codes, pc, loc, issued, base, fixc,
                  fixp, cleanup, session,
                  users, logs, auth >>

\* ---------------------------------------------------------- the chat page

\* start_new_conversation(prompt_id, user_code), up to save_conversation's
\* allocation: the prompt must load, and its content is the system message.
StartNewConversationAllocate(p, prompt_id) ==
  LET j == get_prompt_with_documents(prompts, prompt_id, UserOf(p))
  IN  /\ j # 0
      /\ now < MaxClock
      /\ SaveConversationAllocate(p, UserOf(p), prompt_id,
                                  SystemOnly(prompts[j].content))

\* start_new_conversation, save_conversation returned an ID: the session
\* takes the new conversation.
StartNewConversationSaved(p) ==
  /\ SaveConversationInsert(p)
  /\ session' = [session EXCEPT ![p] =
                   [ current_conversation |-> loc[p].next_id,
                     current_prompt       |-> loc[p].prompt_id,
                     messages             |-> loc[p].messages ]]

\* start_new_conversation, save_conversation returned None: the session
\* stays as it was.
StartNewConversationFailed(p) ==
  /\ SaveConversationInsertFails(p)
  /\ UNCHANGED session

\* load_conversation(conversation_id, user_code): the session takes the
\* conversation when the user owns one with that ID.
LoadConversation(p, conversation_id) ==
  /\ pc[p] = "idle"
  /\ LET j == first_match(conversations, conversation_id, UserOf(p))
     IN  /\ j # 0
         /\ session' = [session EXCEPT ![p] =
              [ current_conversation |-> conversation_id,
                current_prompt       |-> conversations[j].prompt_id,
                messages             |-> get_conversation_messages(
                                           conversations, conversation_id,
                                           UserOf(p)) ]]
  /\ UNCHANGED << counters, conversations, prompts, admin_codes, now, pc, loc,
                  ret, issued, base, fixc, fixp, cleanup,
                  users, logs, auth >>

\* load_conversation for an ID the user owns no conversation with: "not
\* found", and the session stays as it was.
LoadConversationNotFound(p, conversation_id) ==
  /\ pc[p] = "idle"
  /\ first_match(conversations, conversation_id, UserOf(p)) = 0
  /\ UNCHANGED << counters, conversations, prompts, admin_codes, now, pc, loc,
                  ret, issued, base, fixc, fixp, cleanup, session,
                  users, logs, auth >>

\* The two messages a completed turn appends to st.session_state.messages.
turn(user_input, assistant_response) ==
  << [ role |-> "user", content |-> user_input ],
     [ role |-> "assistant", content |-> assistant_response ] >>

\* handle_user_message, the turn completes: both messages are appended and
\* update_conversation is called with user_code_arg.
HandleTurn(p, user_input, assistant_response, user_code_arg) ==
  /\ pc[p] = "idle"
  /\ session[p].current_conversation # None
  /\ now < MaxClock
  /\ LET messages == session[p].messages \o turn(user_input, assistant_response)
         r == update_conversation(conversations,
                                  session[p].current_conversation, messages,
                                  user_code_arg, now)
     IN  /\ session' = [session EXCEPT ![p].messages = messages]
         /\ conversations' = r.conversations
         /\ ret' = [ret EXCEPT ![p] =
                      [ op |-> "update_conversation", value |-> r.result,
                        conversation_id |-> session[p].current_conversation,
                        user_code |-> user_code_arg ]]
  /\ now' = now + 1
  /\ UNCHANGED << counters, prompts, admin_codes, pc, loc, issued, base, fixc,
                  fixp, cleanup,
                  users, logs, auth >>

\* handle_user_message of page_modules/chat.py: update_conversation(
\* current_conversation, messages, user_code).
HandleUserMessage(p, user_input, assistant_response) ==
  HandleTurn(p, user_input, assistant_response, UserOf(p))

\* handle_user_message of pages/1_Chat.py: update_conversation(
\* current_conversation, messages), no user_code.
HandleUserMessagePage1(p, user_input, assistant_response) ==
  HandleTurn(p, user_input, assistant_response, NoUserCode)

\* The conversation IDs a caller tries: two stored ones and one that no
\* conversation carries.
ChatIds == { FormatId("C", 1), FormatId("C", 2), FormatId("C", 9) }

\* The message list of a direct update_conversation call.
DirectMessages ==
  SystemOnly("Hi") \o turn("Hi", "Explain photosynthesis")

\* What the assistant answers: nothing, or a text.
Responses == {"", "Explain photosynthesis"}

\* The store of the chat page: each user has saved one prompt and started
\* one conversation from it.
InitChat ==
  /\ prompts = << prompt_data(FormatId("P", 1), "AB12C",
                              "Explain photosynthesis", <<>>, 1),
                  prompt_data(FormatId("P", 1), "XY34Z", "Hi", <<>>, 2) >>
  /\ conversations =
       << conversation_data(FormatId("C", 1), "AB12C", FormatId("P", 1),
                            SystemOnly("Explain photosynthesis"), 3),
          conversation_data(FormatId("C", 2), "XY34Z", FormatId("P", 1),
                            SystemOnly("Hi"), 4) >>
  /\ counters = [key \in CounterKeys |->
                   IF key = ConversationKey THEN 2 ELSE 1]
  /\ now = 5
  /\ base = counters
  /\ admin_codes = <<>>
  /\ pc = [p \in Procs |-> "idle"]
  /\ loc = [p \in Procs |-> NoLocals]
  /\ ret = [p \in Procs |-> NoReturn]
  /\ issued = <<>>
  /\ fixc = ScriptIdle
  /\ fixp = PromptScriptIdle
  /\ cleanup = CleanupIdle
  /\ session = [p \in Procs |-> NoSession]
  /\ users = <<>>
  /\ logs = <<>>
  /\ auth = [p \in Procs |-> NoAuth]

StartNewConversation ==
  \E p \in Procs :
    \/ StartNewConversationAllocate(p, FormatId("P", 1))
    \/ StartNewConversationSaved(p)
    \/ StartNewConversationFailed(p)

ChatPage ==
  \E p \in Procs :
    \/ \E conversation_id \in ChatIds :
         \/ LoadConversation(p, conversation_id)
         \/ LoadConversationNotFound(p, conversation_id)
    \/ \E assistant_response \in Responses :
         \/ HandleUserMessage(p, "Hi", assistant_response)
         \/ HandleUserMessagePage1(p, "Hi", assistant_response)

DirectUpdate ==
  \E p \in Procs, conversation_id \in ChatIds,
     user_code \in Users \cup {NoUserCode} :
    UpdateConversation(p, conversation_id, DirectMessages, user_code)

NextChat ==
  \/ StartNewConversation
  \/ ChatPage
  \/ DirectUpdate

SpecChat == InitChat /\ [][NextChat]_vars

\* ------------------------------------------------------------ admin codes

\* Admin codes a behaviour adds at most beside the initial one.
MaxAdminCodes == 1
\* The last datetime.utcnow() tick of a behaviour of the admin operations.
MaxAdminClock == 5

\* The codes callers pass, in the case they type them.
AdminInputs == {"ROOT1", "root1", "ADM1N"}
\* The admin levels.
Levels == {"admin", "super_admin"}

\* code.upper().
upper(code) == IF code = "root1" THEN "ROOT1" ELSE code

\* admin_data of add_admin_code, inserted at time t. removed_by and
\* removed_at are absent until remove_admin_code sets them.
admin_data(code, level, added_by, t) ==
  [ code       |-> upper(code),
    level      |-> level,
    added_by   |-> added_by,
    created_at |-> t,
    is_active  |-> TRUE,
    removed_by |-> None,
    removed_at |-> None ]

\* find_one({"code": code}): the position of the first document with the
\* code, 0 when there is none.
find_code(coll, code) ==
  LET hits == { j \in DOMAIN coll : coll[j].code = code }
  IN  IF hits = {} THEN 0 ELSE CHOOSE j \in hits : \A h \in hits : j <= h

find_any_code(coll, code) == find_code(coll, upper(code))

\* find_one({"code": code.upper(), "is_active": True}): the position of the
\* first active document with the code, 0 when there is none.
find_active_code(coll, code) ==
  LET hits == { j \in DOMAIN coll :
                  coll[j].code = upper(code) /\ coll[j].is_active }
  IN  IF hits = {} THEN 0 ELSE CHOOSE j \in hits : \A h \in hits : j <= h

\* is_admin_code(code).
is_admin_code(coll, code) == find_active_code(coll, code) # 0

\* get_admin_level(code): the level of the active code, None without one.
get_admin_level(coll, code) ==
  IF find_active_code(coll, code) = 0 THEN "None"
  ELSE coll[find_active_code(coll, code)].level

\* is_super_admin(code).
is_super_admin(coll, code) == get_admin_level(coll, code) = "super_admin"

\* remove_admin_code(code, removed_by) at time t: the collection after its
\* update_one({"code": code.upper()}, {"$set": {...}}), and its return value,
\* result.modified_count > 0.
remove_admin_code(coll, code, removed_by, t) ==
  LET j       == find_code(coll, upper(code))
      updated == [coll EXCEPT ![j] =
                    [@ EXCEPT !.is_active  = FALSE,
                              !.removed_by = removed_by,
                              !.removed_at = t]]
      after   == IF j = 0 THEN coll ELSE updated
  IN  [ admin_codes |-> after, result |-> after # coll ]

\* remove_admin_code_auth(code, removed_by): remove_admin_code, as it is.
remove_admin_code_auth(coll, code, removed_by, t) ==
  remove_admin_code(coll, code, removed_by, t)

\* add_admin_code, the find_one: an existing code (active or not) ends the
\* call with False.
AddAdminCodeExists(p, code) ==
  /\ pc[p] = "idle"
  /\ find_code(admin_codes, upper(code)) # 0
  /\ ret' = [ret EXCEPT ![p] =
               [ op |-> "add_admin_code", value |-> FALSE, code |-> upper(code) ]]
  /\ UNCHANGED << counters, conversations, prompts, admin_codes, now, pc, loc,
                  issued, base, fixc, fixp, cleanup, session,
                  users, logs, auth >>

\* add_admin_code, the find_one finds nothing: the call goes on to insert.
AddAdminCodeCheck(p, code, level, added_by) ==
  /\ pc[p] = "idle"
  /\ Len(admin_codes) <= MaxAdminCodes
  /\ find_code(admin_codes, upper(code)) = 0
  /\ pc' = [pc EXCEPT ![p] = "insert_admin_code"]
  /\ loc' = [loc EXCEPT ![p] =
               [ code |-> code, level |-> level, added_by |-> added_by ]]
  /\ UNCHANGED << counters, conversations, prompts, admin_codes, now, ret,
                  issued, base, fixc, fixp, cleanup, session,
                  users, logs, auth >>

\* add_admin_code, the insert_one: the code is stored active.
AddAdminCodeInsert(p) ==
  /\ pc[p] = "insert_admin_code"
  /\ admin_codes' = Append(admin_codes,
       admin_data(loc[p].code, loc[p].level, loc[p].added_by, now))
  /\ now' = now + 1
  /\ ret' = [ret EXCEPT ![p] =
               [ op |-> "add_admin_code", value |-> TRUE,
                 code |-> upper(loc[p].code) ]]
  /\ pc' = [pc EXCEPT ![p] = "idle"]
  /\ loc' = [loc EXCEPT ![p] = NoLocals]
  /\ UNCHANGED << counters, conversations, prompts, issued, base, fixc, fixp,
                  cleanup, session,
                  users, logs, auth >>

\* A call of remove_admin_code or remove_admin_code_auth (op) by process p:
\* one update_one.
RemoveCall(p, op, code, removed_by) ==
  /\ pc[p] = "idle"
  /\ now < MaxAdminClock
  /\ LET r == IF op = "remove_admin_code_auth"
              THEN remove_admin_code_auth(admin_codes, code, removed_by, now)
              ELSE remove_admin_code(admin_codes, code, removed_by, now)
     IN  /\ admin_codes' = r.admin_codes
         /\ ret' = [ret EXCEPT ![p] =
                      [ op |-> op, value |-> r.result, code |-> upper(code) ]]
  /\ now' = now + 1
  /\ UNCHANGED << counters, conversations, prompts, pc, loc, issued, base,
                  fixc, fixp, cleanup, session,
                  users, logs, auth >>

\* remove_admin_code(code, removed_by), called as it is.
RemoveAdminCode(p, code, removed_by) ==
  RemoveCall(p, "remove_admin_code", code, removed_by)

\* remove_admin_code_auth(code, removed_by), the wrapper of utils/auth.py.
RemoveAdminCodeAuth(p, code, removed_by) ==
  RemoveCall(p, "remove_admin_code_auth", code, removed_by)

\* remove_admin_code_script, the reads: is_admin_code(code), then
\* get_admin_level(code). A code that is not an active admin code, or is a
\* super_admin, ends the script with False.
RemoveAdminCodeScriptRefuses(p, code) ==
  /\ pc[p] = "idle"
  /\ \/ ~is_admin_code(admin_codes, code)
     \/ get_admin_level(admin_codes, code) = "super_admin"
  /\ ret' = [ret EXCEPT ![p] =
               [ op |-> "remove_admin_code_script", value |-> FALSE,
                 code |-> upper(code) ]]
  /\ UNCHANGED << counters, conversations, prompts, admin_codes, now, pc, loc,
                  issued, base, fixc, fixp, cleanup, session,
                  users, logs, auth >>

\* remove_admin_code_script, the reads pass: the script goes on to remove.
RemoveAdminCodeScriptCheck(p, code) ==
  /\ pc[p] = "idle"
  /\ now < MaxAdminClock
  /\ is_admin_code(admin_codes, code)
  /\ get_admin_level(admin_codes, code) # "super_admin"
  /\ pc' = [pc EXCEPT ![p] = "script_remove"]
  /\ loc' = [loc EXCEPT ![p] =
               [ code |-> code, level |-> "None", added_by |-> "script" ]]
  /\ UNCHANGED << counters, conversations, prompts, admin_codes, now, ret,
                  issued, base, fixc, fixp, cleanup, session,
                  users, logs, auth >>

\* remove_admin_code_script, the removal: remove_admin_code(code.upper(),
\* removed_by).
RemoveAdminCodeScriptRemove(p) ==
  /\ pc[p] = "script_remove"
  /\ LET r == remove_admin_code(admin_codes, upper(loc[p].code), "script", now)
     IN  /\ admin_codes' = r.admin_codes
         /\ ret' = [ret EXCEPT ![p] =
                      [ op |-> "remove_admin_code_script", value |-> r.result,
                        code |-> upper(loc[p].code) ]]
  /\ now' = now + 1
  /\ pc' = [pc EXCEPT ![p] = "idle"]
  /\ loc' = [loc EXCEPT ![p] = NoLocals]
  /\ UNCHANGED << counters, conversations, prompts, issued, base, fixc, fixp,
                  cleanup, session,
                  users, logs, auth >>

\* The store after create_initial_admin_code: one active super_admin code.
InitAdmin ==
  /\ admin_codes = << admin_data("ROOT1", "super_admin", "system", 1) >>
  /\ now = 2
  /\ conversations = <<>>
  /\ prompts = <<>>
  /\ counters = [key \in CounterKeys |-> 0]
  /\ base = counters
  /\ pc = [p \in Procs |-> "idle"]
  /\ loc = [p \in Procs |-> NoLocals]
  /\ ret = [p \in Procs |-> NoReturn]
  /\ issued = <<>>
  /\ fixc = ScriptIdle
  /\ fixp = PromptScriptIdle
  /\ cleanup = CleanupIdle
  /\ session = [p \in Procs |-> NoSession]
  /\ users = <<>>
  /\ logs = <<>>
  /\ auth = [p \in Procs |-> NoAuth]

AddAdminCode ==
  \E p \in Procs :
    \/ \E code \in AdminInputs :
         \/ AddAdminCodeExists(p, code)
         \/ \E level \in Levels : AddAdminCodeCheck(p, code, level, "ROOT1")
    \/ AddAdminCodeInsert(p)

RemoveAdmin ==
  \E p \in Procs, code \in AdminInputs :
    \/ RemoveAdminCode(p, code, "system")
    \/ RemoveAdminCodeAuth(p, code, "ROOT1")

RemoveAdminCodeScript ==
  \E p \in Procs :
    \/ \E code \in AdminInputs :
         \/ RemoveAdminCodeScriptRefuses(p, code)
         \/ RemoveAdminCodeScriptCheck(p, code)
    \/ RemoveAdminCodeScriptRemove(p)

NextAdmin ==
  \/ AddAdminCode
  \/ RemoveAdmin
  \/ RemoveAdminCodeScript

SpecAdmin == InitAdmin /\ [][NextAdmin]_vars

\* ------------------------------------------- the repair on a legacy store

\* Records a legacy collection holds at most.
MaxLegacy == 2

\* The IDs legacy records carry: none, or any of the first MaxLegacy.
LegacyIds(prefix) == {None} \cup { FormatId(prefix, i) : i \in 1..MaxLegacy }

\* The ways n records, in the order stored, were created one after another.
CreationOrders(n) ==
  { f \in [1..n -> 1..n] : \A a, b \in 1..n : a # b => f[a] # f[b] }

\* The legacy conversation collections: any IDs, duplicated, missing or out
\* of sequence, stored in any order of creation.
LegacyConversations ==
  UNION { { [ j \in 1..n |->
                [ conversation_data(ids[j], "AB12C", FormatId("P", 1),
                                    SystemOnly("Hi"), created[j])
                    EXCEPT !._id = j ] ]
            : ids \in [1..n -> LegacyIds("C")], created \in CreationOrders(n) }
          : n \in 0..MaxLegacy }

\* The legacy prompt collections: any owners and IDs, in the order created.
LegacyPrompts ==
  UNION { { [ j \in 1..n |->
                prompt_data(ids[j], owners[j], "Hi", <<>>, j) ]
            : ids \in [1..n -> LegacyIds("P")], owners \in [1..n -> Users] }
          : n \in 0..MaxLegacy }

\* The counters a legacy store comes with: no counter document, or counters
\* that ran ahead of the records (allocations whose insert failed).
LegacyCounters ==
  { [key \in CounterKeys |-> 0], [key \in CounterKeys |-> MaxLegacy + 1] }

\* A legacy store: legacy conversations or legacy prompts, with no counter
\* document or with counters ahead of the records.
InitFix ==
  /\ \/ conversations \in LegacyConversations /\ prompts = <<>>
     \/ conversations = <<>> /\ prompts \in LegacyPrompts
  /\ counters \in LegacyCounters
  /\ now = MaxLegacy + 1
  /\ base = counters
  /\ admin_codes = <<>>
  /\ pc = [p \in Procs |-> "idle"]
  /\ loc = [p \in Procs |-> NoLocals]
  /\ ret = [p \in Procs |-> NoReturn]
  /\ issued = <<>>
  /\ fixc = ScriptIdle
  /\ fixp = PromptScriptIdle
  /\ cleanup = CleanupIdle
  /\ session = [p \in Procs |-> NoSession]
  /\ users = <<>>
  /\ logs = <<>>
  /\ auth = [p \in Procs |-> NoAuth]

\* main() of fix_duplicate_ids.py: fix_prompt_ids runs once
\* fix_conversation_ids has returned.
FixPromptIdsInMain ==
  /\ fixc.pc = "done"
  /\ FixPromptIds

\* The script is started again once it has ended.
RunFixAgain ==
  /\ fixc.pc = "done"
  /\ fixp.pc = "done"
  /\ fixc.runs < MaxFixRuns
  /\ fixc' = [fixc EXCEPT !.pc = "idle"]
  /\ fixp' = [fixp EXCEPT !.pc = "idle"]
  /\ UNCHANGED << counters, conversations, prompts, admin_codes, now, pc, loc,
                  ret, issued, base, cleanup, session,
                  users, logs, auth >>

NextFix ==
  \/ FixConversationIds
  \/ FixPromptIdsInMain
  \/ RunFixAgain

SpecFix == InitFix /\ [][NextFix]_vars

\* ----------------------------------------------- update_prompt_token_counts

\* Calls of update_prompt_token_counts made at most.
MaxBackfillRuns == 2

\* The fields save_prompt and update_prompt_token_counts write the counts to.
TokenFields ==
  { "prompt_token_count", "document_token_count", "total_token_count" }

\* The find filter: the $or of four {"$exists": False} tests.
needs_token_update(prompt) ==
  \/ "token_count" \notin DOMAIN prompt
  \/ "prompt_token_count" \notin DOMAIN prompt
  \/ "document_token_count" \notin DOMAIN prompt
  \/ "total_token_count" \notin DOMAIN prompt

\* list(prompts_collection.find(...)).
prompts_to_update(coll) == SelectSeq(coll, needs_token_update)

token_counts_without_documents(prompt) ==
  [ prompt_token_count   |-> count_tokens(prompt.content),
    document_token_count |-> IF "documents" \in DOMAIN prompt
                             THEN document_tokens(prompt.documents)
                             ELSE 0,
    total_token_count    |-> count_tokens(prompt.content) ]

\* The $set of one prompt read: the three counts recomputed from its content
\* and its documents (none counted when it has no "documents").
token_counts_of(prompt) ==
  LET prompt_token_count   == count_tokens(prompt.content)
      document_token_count == IF "documents" \in DOMAIN prompt
                              THEN document_tokens(prompt.documents)
                              ELSE 0
  IN  [ prompt_token_count   |-> prompt_token_count,
        document_token_count |-> document_token_count,
        total_token_count    |-> prompt_token_count + document_token_count ]

\* A document after {"$set": counts, "$unset": {"token_count": ""}}; the
\* $unset is part of the update only when the prompt read had the field.
apply_token_update(doc, counts, unset) ==
  LET kept == (DOMAIN doc \cup TokenFields)
                \ (IF unset THEN {"token_count"} ELSE {})
  IN  [ f \in kept |-> IF f \in TokenFields THEN counts[f] ELSE doc[f] ]

\* update_one({"_id": prompt["_id"]}, update_data) for the prompt read.
update_token_counts_one(coll, prompt) ==
  [ j \in 1..Len(coll) |->
      IF coll[j]._id = prompt._id
      THEN apply_token_update(coll[j], token_counts_of(prompt),
                              "token_count" \in DOMAIN prompt)
      ELSE coll[j] ]

token_matched_count(coll, prompt) ==
  IF \E j \in 1..Len(coll) : coll[j]._id = prompt._id THEN 1 ELSE 0

\* result.modified_count of that update_one.
token_modified_count(coll, prompt) ==
  IF update_token_counts_one(coll, prompt) # coll THEN 1 ELSE 0

\* What update_prompt_token_counts returns, with the collection as the call
\* read it and as the call left it, and the same of the call before it.
TokenCountsReturn(p, updated_count, read, after) ==
  [ op             |-> "update_prompt_token_counts",
    value          |-> updated_count,
    runs           |-> loc[p].runs,
    read           |-> read,
    after          |-> after,
    previous_op    |-> loc[p].previous.op,
    previous_value |-> loc[p].previous.value,
    previous_after |-> IF loc[p].previous.op = "update_prompt_token_counts"
                       THEN loc[p].previous.after ELSE <<>> ]

\* How many calls of update_prompt_token_counts p has made and ended.
BackfillRuns(p) ==
  IF ret[p].op = "update_prompt_token_counts" THEN ret[p].runs ELSE 0

\* How many calls of update_prompt_token_counts were made, ended or not.
BackfillCalls ==
  BackfillRuns("p1") + BackfillRuns("p2")
    + Cardinality({ p \in Procs : pc[p] = "update_token_counts" })

\* update_prompt_token_counts, the find. With nothing to update it returns 0.
UpdateTokenCountsRead(p) ==
  /\ pc[p] = "idle"
  /\ BackfillCalls < MaxBackfillRuns
  /\ LET found == prompts_to_update(prompts)
         locals == [ prompts_to_update |-> found, i |-> 0, updated_count |-> 0,
                     read |-> prompts, runs |-> BackfillRuns(p) + 1,
                     previous |-> ret[p] ]
     IN  IF found = <<>>
         THEN /\ ret' = [ret EXCEPT ![p] =
                   [ op |-> "update_prompt_token_counts", value |-> 0,
                     runs |-> locals.runs, read |-> prompts, after |-> prompts,
                     previous_op |-> ret[p].op,
                     previous_value |-> ret[p].value,
                     previous_after |->
                       IF ret[p].op = "update_prompt_token_counts"
                       THEN ret[p].after ELSE <<>> ]]
              /\ UNCHANGED << pc, loc >>
         ELSE /\ loc' = [loc EXCEPT ![p] = locals]
              /\ pc' = [pc EXCEPT ![p] = "update_token_counts"]
              /\ UNCHANGED ret
  /\ UNCHANGED << counters, conversations, prompts, admin_codes, now, issued,
                  base, fixc, fixp, cleanup, session,
                  users, logs, auth >>

\* update_prompt_token_counts, one turn of the loop: the counts of the prompt
\* read are written, and counted when the write modified the document. After
\* the last prompt the call returns updated_count.
UpdateTokenCountsStep(p) ==
  /\ pc[p] = "update_token_counts"
  /\ LET prompt        == loc[p].prompts_to_update[loc[p].i + 1]
         updated_count == loc[p].updated_count
                            + token_modified_count(prompts, prompt)
         last          == loc[p].i + 1 = Len(loc[p].prompts_to_update)
     IN  /\ prompts' = update_token_counts_one(prompts, prompt)
         /\ IF last
            THEN /\ ret' = [ret EXCEPT ![p] =
                      TokenCountsReturn(p, updated_count, loc[p].read, prompts')]
                 /\ loc' = [loc EXCEPT ![p] = NoLocals]
                 /\ pc' = [pc EXCEPT ![p] = "idle"]
            ELSE /\ loc' = [loc EXCEPT ![p].i = @ + 1,
                                       ![p].updated_count = updated_count]
                 /\ UNCHANGED << pc, ret >>
  /\ UNCHANGED << counters, conversations, admin_codes, now, issued, base,
                  fixc, fixp, cleanup, session,
                  users, logs, auth >>

\* ------------------------------------------------------- the prompt page

\* Prompts created through the form at most.
MaxPageSaves == 1

\* The text of the prompt form as submitted.
PromptInputs == { "", "  ", " Hi " }

\* str.strip() on those texts.
strip(text) ==
  CASE text = "  "   -> ""
    [] text = " Hi " -> "Hi"
    [] OTHER         -> text

\* The uploads of the prompt form, as process_uploaded_document returns them.
UploadedDocuments ==
  { <<>>, << [ filename |-> "notes.txt", content |-> "Hi" ] >> }

\* What the form answers to a submission it does not save.
PromptRejected ==
  [ op |-> "show_prompt_interface", value |-> "Please enter prompt content." ]

is_blank_never(prompt_content) == FALSE

\* "not prompt_content.strip()" of the submitted form.
is_blank(prompt_content) == strip(prompt_content) = ""

\* show_prompt_interface, the form submitted with blank content: the error is
\* shown and create_new_prompt is not called.
ShowPromptInterfaceRejects(p, prompt_content) ==
  /\ pc[p] = "idle"
  /\ is_blank(prompt_content)
  /\ ret' = [ret EXCEPT ![p] = PromptRejected]
  /\ UNCHANGED << counters, conversations, prompts, admin_codes, now, pc, loc,
                  issued, base, fixc, fixp, cleanup, session,
                  users, logs, auth >>

\* show_prompt_interface, the form submitted with content:
\* create_new_prompt(user_code, prompt_content.strip(), documents), which
\* calls save_prompt.
ShowPromptInterfaceCreates(p, prompt_content, documents) ==
  /\ Len(issued) < MaxPageSaves
  /\ ~ is_blank(prompt_content)
  /\ SavePromptAllocate(p, UserOf(p), strip(prompt_content), documents)

\* ------------------------------------- the prompt store and its backfill

\* The prompt documents a store from before the three counts can hold: with
\* the old token_count and without the three counts, with no count at all
\* and no documents, as save_prompt writes them, or with the three counts
\* next to the old token_count.
LegacyPromptKinds(next_id, t) ==
  LET attached == << [ filename |-> "notes.txt", content |-> "Hi" ] >>
      current  == prompt_data(next_id, "AB12C", "Hi", <<>>, t)
      saved    == prompt_data(next_id, "AB12C", "Hi", attached, t)
      old      == [ f \in (DOMAIN saved \ TokenFields) \cup {"token_count"} |->
                      IF f = "token_count" THEN count_tokens(saved.content)
                      ELSE saved[f] ]
      bare     == [ f \in DOMAIN current \ (TokenFields \cup {"documents"}) |->
                      current[f] ]
      both     == [ f \in DOMAIN current \cup {"token_count"} |->
                      IF f = "token_count" THEN count_tokens(current.content)
                      ELSE current[f] ]
  IN  { current, old, bare, both }

\* The prompt collections the backfill can meet.
BackfillPrompts ==
  UNION { { coll \in [1..n -> UNION { LegacyPromptKinds(FormatId("P", j), j)
                                      : j \in 1..n }] :
              \A j \in 1..n : coll[j]._id = j }
          : n \in 0..MaxLegacy }

InitTokens ==
  /\ conversations = <<>>
  /\ prompts \in BackfillPrompts
  /\ counters = [key \in CounterKeys |->
                   IF key = PromptKey("AB12C") THEN Len(prompts) ELSE 0]
  /\ now = MaxLegacy + 1
  /\ base = counters
  /\ admin_codes = <<>>
  /\ pc = [p \in Procs |-> "idle"]
  /\ loc = [p \in Procs |-> NoLocals]
  /\ ret = [p \in Procs |-> NoReturn]
  /\ issued = <<>>
  /\ fixc = ScriptIdle
  /\ fixp = PromptScriptIdle
  /\ cleanup = CleanupIdle
  /\ session = [p \in Procs |-> NoSession]
  /\ users = <<>>
  /\ logs = <<>>
  /\ auth = [p \in Procs |-> NoAuth]

\* The session on the admin page, which runs the backfill, and the session
\* on the prompt page.
AdminSessions == { "p1" }
PromptSessions == { "p2" }

ShowPromptInterface ==
  \E p \in PromptSessions :
    \/ \E prompt_content \in PromptInputs :
         ShowPromptInterfaceRejects(p, prompt_content)
    \/ \E prompt_content \in PromptInputs, documents \in UploadedDocuments :
         ShowPromptInterfaceCreates(p, prompt_content, documents)
    \/ SavePromptInsert(p)
    \/ SavePromptInsertFails(p)

UpdatePromptTokenCounts ==
  \E p \in AdminSessions :
    \/ UpdateTokenCountsRead(p)
    \/ UpdateTokenCountsStep(p)

NextTokens ==
  \/ ShowPromptInterface
  \/ UpdatePromptTokenCounts

SpecTokens == InitTokens /\ [][NextTokens]_vars

\* ------------------------------------------- the reads, with a failing store

\* get_conversation_by_id(conversation_id, user_code): the document find_one
\* gives, None when nothing matches, and None when the store raises (the
\* except branch reports and falls through to "return None").
get_conversation_by_id(coll, conversation_id, user_code, available) ==
  LET j == first_match(coll, conversation_id, user_code)
  IN  IF ~ available THEN None
      ELSE IF j = 0 THEN None ELSE coll[j]

\* get_conversation_messages as load_conversation calls it: [] from the
\* except branch when the store raises.
get_conversation_messages_or_empty(coll, conversation_id, user_code, available) ==
  IF available
  THEN get_conversation_messages(coll, conversation_id, user_code)
  ELSE <<>>

\* A query by prompt_id alone, whatever the user_code.
prompt_query_by_id(doc, prompt_id, user_code) ==
  doc.prompt_id = prompt_id

\* query = {"prompt_id": prompt_id}, and query["user_code"] = user_code
\* "if user_code:": whether a prompt matches it.
prompt_query_matches(doc, prompt_id, user_code) ==
  /\ doc.prompt_id = prompt_id
  /\ (user_code # NoUserCode => doc.user_code = user_code)

\* get_prompt_by_id(prompt_id, user_code), and get_prompt_with_documents,
\* which has the same body: the prompt find_one gives, None when nothing
\* matches, and None when the store raises.
get_prompt_by_id(coll, prompt_id, user_code, available) ==
  LET hits == { j \in DOMAIN coll :
                  prompt_query_matches(coll[j], prompt_id, user_code) }
  IN  IF ~ available THEN None
      ELSE IF hits = {} THEN None
      ELSE coll[CHOOSE j \in hits : \A h \in hits : j <= h]

\* update_conversation with a store that may raise: the except branch returns
\* False and nothing is written.
update_conversation_or_false(coll, conversation_id, messages, user_code, t, available) ==
  IF available
  THEN update_conversation(coll, conversation_id, messages, user_code, t)
  ELSE [ conversations |-> coll, result |-> FALSE ]

\* --------------------------------------------- the chat page, turn by turn

\* The chunks of a streamed completion, in the order received.
Chunks == << "Explain", " photosynthesis" >>

\* full_response after the first k chunks.
full_response_after(k) ==
  CASE k = 0 -> ""
    [] k = 1 -> "Explain"
    [] OTHER -> "Explain photosynthesis"

\* The locals of handle_user_message while the completion streams: the
\* chunks received, and the stored conversation as it was before the turn.
StreamLocals(k, before) ==
  [ next_id |-> None, user_code |-> None, prompt_id |-> None,
    messages |-> <<>>, chunks |-> k, before |-> before ]

\* What handle_user_message leaves behind: how the turn ended, for which
\* conversation, the stored conversation as it was before the turn, and the
\* chunks received.
TurnReturn(outcome, conversation_id, before, chunks) ==
  [ op |-> "handle_user_message", value |-> outcome,
    conversation_id |-> conversation_id, before |-> before,
    chunks |-> chunks ]

\* start_new_conversation for a prompt_id get_prompt_with_documents finds no
\* prompt of the user for: the error is shown and the call returns before
\* save_conversation.
StartNewConversationNotFound(p, prompt_id) ==
  /\ pc[p] = "idle"
  /\ get_prompt_by_id(prompts, prompt_id, UserOf(p), TRUE) = None
  /\ ret' = [ret EXCEPT ![p] =
               [ op |-> "start_new_conversation", value |-> None,
                 prompt_id |-> prompt_id ]]
  /\ UNCHANGED << counters, conversations, prompts, admin_codes, now, pc, loc,
                  issued, base, fixc, fixp, cleanup, session,
                  users, logs, auth >>

\* load_conversation when get_conversation_by_id answers and the store then
\* raises inside get_conversation_messages: messages is [], and the session
\* takes the conversation with it.
LoadConversationReadFails(p, conversation_id) ==
  /\ pc[p] = "idle"
  /\ LET conversation == get_conversation_by_id(conversations, conversation_id,
                                                UserOf(p), TRUE)
     IN  /\ conversation # None
         /\ session' = [session EXCEPT ![p] =
              [ current_conversation |-> conversation_id,
                current_prompt       |-> conversation.prompt_id,
                messages             |-> get_conversation_messages_or_empty(
                                           conversations, conversation_id,
                                           UserOf(p), FALSE) ]]
  /\ UNCHANGED << counters, conversations, prompts, admin_codes, now, pc, loc,
                  ret, issued, base, fixc, fixp, cleanup,
                  users, logs, auth >>

\* handle_user_message, up to the request: the user message, stamped with
\* datetime.utcnow(), is appended to st.session_state.messages and the
\* completion is asked for.
HandleUserMessageBegin(p, user_input) ==
  /\ pc[p] = "idle"
  /\ session[p].current_conversation # None
  /\ now < MaxClock
  /\ session' = [session EXCEPT ![p].messages =
                   Append(@, [ role |-> "user", content |-> user_input ])]
  /\ loc' = [loc EXCEPT ![p] =
               StreamLocals(0, get_conversation_by_id(conversations,
                                 session[p].current_conversation, UserOf(p),
                                 TRUE))]
  /\ pc' = [pc EXCEPT ![p] = "streaming"]
  /\ now' = now + 1
  /\ UNCHANGED << counters, conversations, prompts, admin_codes, ret, issued,
                  base, fixc, fixp, cleanup,
                  users, logs, auth >>

\* handle_user_message, one chunk of the stream: full_response += content.
StreamChunk(p) ==
  /\ pc[p] = "streaming"
  /\ loc[p].chunks < Len(Chunks)
  /\ loc' = [loc EXCEPT ![p].chunks = @ + 1]
  /\ UNCHANGED << counters, conversations, prompts, admin_codes, now, pc, ret,
                  issued, base, fixc, fixp, cleanup, session,
                  users, logs, auth >>

\* handle_user_message, the stream ends: the assistant message is appended
\* and update_conversation(current_conversation, messages, user_code) called.
StreamCompletes(p) ==
  /\ pc[p] = "streaming"
  /\ LET messages == Append(session[p].messages,
                       [ role |-> "assistant",
                         content |-> full_response_after(loc[p].chunks) ])
         r == update_conversation(conversations,
                                  session[p].current_conversation, messages,
                                  UserOf(p), now)
     IN  /\ session' = [session EXCEPT ![p].messages = messages]
         /\ conversations' = r.conversations
  /\ now' = now + 1
  /\ ret' = [ret EXCEPT ![p] =
               TurnReturn("completed", session[p].current_conversation,
                          loc[p].before, loc[p].chunks)]
  /\ loc' = [loc EXCEPT ![p] = NoLocals]
  /\ pc' = [pc EXCEPT ![p] = "idle"]
  /\ UNCHANGED << counters, prompts, admin_codes, issued, base, fixc, fixp,
                  cleanup,
                  users, logs, auth >>

after_stream_error_saving(coll, conversation_id, messages, user_code, t) ==
  update_conversation(coll, conversation_id, messages, user_code, t).conversations

\* The conversations after the except branch of handle_user_message: the
\* error is shown and logged, and nothing is written.
after_stream_error(coll, conversation_id, messages, user_code, t) == coll

\* handle_user_message, the request or the stream raises: the except branch.
\* The user message stays in st.session_state.messages.
StreamFails(p) ==
  /\ pc[p] = "streaming"
  /\ conversations' = after_stream_error(conversations,
       session[p].current_conversation,
       Append(session[p].messages,
              [ role |-> "assistant",
                content |-> full_response_after(loc[p].chunks) ]),
       UserOf(p), now)
  /\ ret' = [ret EXCEPT ![p] =
               TurnReturn("error", session[p].current_conversation,
                          loc[p].before, loc[p].chunks)]
  /\ loc' = [loc EXCEPT ![p] = NoLocals]
  /\ pc' = [pc EXCEPT ![p] = "idle"]
  /\ UNCHANGED << counters, prompts, admin_codes, now, issued, base, fixc,
                  fixp, cleanup, session,
                  users, logs, auth >>

\* handle_user_message, the script run is stopped while the completion
\* streams (a rerun, the user leaving): the function goes no further.
StreamAbandoned(p) ==
  /\ pc[p] = "streaming"
  /\ ret' = [ret EXCEPT ![p] =
               TurnReturn("abandoned", session[p].current_conversation,
                          loc[p].before, loc[p].chunks)]
  /\ loc' = [loc EXCEPT ![p] = NoLocals]
  /\ pc' = [pc EXCEPT ![p] = "idle"]
  /\ UNCHANGED << counters, conversations, prompts, admin_codes, now, issued,
                  base, fixc, fixp, cleanup, session,
                  users, logs, auth >>

\* The prompt IDs a user tries: one both users have, one only XY34Z has, and
\* one no prompt carries.
PromptIdsTried == { FormatId("P", 1), FormatId("P", 2), FormatId("P", 9) }

\* The store of the chat page: AB12C has saved one prompt and started one
\* conversation from it, XY34Z has saved two prompts.
InitChatPage ==
  /\ prompts = << prompt_data(FormatId("P", 1), "AB12C",
                              "Explain photosynthesis", <<>>, 1),
                  prompt_data(FormatId("P", 1), "XY34Z", "Hi", <<>>, 2),
                  prompt_data(FormatId("P", 2), "XY34Z", "Hi", <<>>, 3) >>
  /\ conversations =
       << conversation_data(FormatId("C", 1), "AB12C", FormatId("P", 1),
                            SystemOnly("Explain photosynthesis"), 4) >>
  /\ counters = [key \in CounterKeys |->
                   IF key = PromptKey("XY34Z") THEN 2 ELSE 1]
  /\ now = 5
  /\ base = counters
  /\ admin_codes = <<>>
  /\ pc = [p \in Procs |-> "idle"]
  /\ loc = [p \in Procs |-> NoLocals]
  /\ ret = [p \in Procs |-> NoReturn]
  /\ issued = <<>>
  /\ fixc = ScriptIdle
  /\ fixp = PromptScriptIdle
  /\ cleanup = CleanupIdle
  /\ session = [p \in Procs |-> NoSession]
  /\ users = <<>>
  /\ logs = <<>>
  /\ auth = [p \in Procs |-> NoAuth]

StartNewConversationOfPage ==
  \E p \in Procs :
    \/ \E prompt_id \in PromptIdsTried :
         \/ StartNewConversationAllocate(p, prompt_id)
         \/ StartNewConversationNotFound(p, prompt_id)
    \/ StartNewConversationSaved(p)
    \/ StartNewConversationFailed(p)

LoadConversationOfPage ==
  \E p \in Procs, conversation_id \in ChatIds :
    \/ LoadConversation(p, conversation_id)
    \/ LoadConversationNotFound(p, conversation_id)
    \/ LoadConversationReadFails(p, conversation_id)

HandleUserMessageOfPage ==
  \E p \in Procs :
    \/ HandleUserMessageBegin(p, "Hi")
    \/ StreamChunk(p)
    \/ StreamCompletes(p)
    \/ StreamFails(p)
    \/ StreamAbandoned(p)

NextChatPage ==
  \/ StartNewConversationOfPage
  \/ LoadConversationOfPage
  \/ HandleUserMessageOfPage

SpecChatPage == InitChatPage /\ [][NextChatPage]_vars

\* --------------------------------------- the core called on a failing store

\* The reads and the update of the core that answer for a record by its ID.
LookupOps ==
  { "get_prompt_by_id", "get_conversation_by_id", "get_conversation_messages",
    "update_conversation" }

\* What a lookup returned to p: the value, the ID asked for, and whether the
\* store answered.
LookupReturn(op, value, id, available) ==
  [ op |-> op, value |-> value, id |-> id, available |-> available ]

\* The IDs a caller asks the core for: a stored one and one nothing carries.
CoreIds(prefix) == { FormatId(prefix, 1), FormatId(prefix, 9) }

\* A call of get_prompt_by_id(prompt_id, user_code) by p.
GetPromptById(p, prompt_id, available) ==
  /\ pc[p] = "idle"
  /\ ret' = [ret EXCEPT ![p] =
       LookupReturn("get_prompt_by_id",
                    get_prompt_by_id(prompts, prompt_id, UserOf(p), available),
                    prompt_id, available)]
  /\ UNCHANGED << counters, conversations, prompts, admin_codes, now, pc, loc,
                  issued, base, fixc, fixp, cleanup, session,
                  users, logs, auth >>

\* A call of get_conversation_by_id(conversation_id, user_code) by p.
GetConversationById(p, conversation_id, available) ==
  /\ pc[p] = "idle"
  /\ ret' = [ret EXCEPT ![p] =
       LookupReturn("get_conversation_by_id",
                    get_conversation_by_id(conversations, conversation_id,
                                           UserOf(p), available),
                    conversation_id, available)]
  /\ UNCHANGED << counters, conversations, prompts, admin_codes, now, pc, loc,
                  issued, base, fixc, fixp, cleanup, session,
                  users, logs, auth >>

\* A call of get_conversation_messages(conversation_id, user_code) by p.
GetConversationMessages(p, conversation_id, available) ==
  /\ pc[p] = "idle"
  /\ ret' = [ret EXCEPT ![p] =
       LookupReturn("get_conversation_messages",
                    get_conversation_messages_or_empty(
                      conversations, conversation_id, UserOf(p), available),
                    conversation_id, available)]
  /\ UNCHANGED << counters, conversations, prompts, admin_codes, now, pc, loc,
                  issued, base, fixc, fixp, cleanup, session,
                  users, logs, auth >>

\* A call of update_conversation(conversation_id, messages, user_code) by p.
UpdateConversationCall(p, conversation_id, messages, available) ==
  /\ pc[p] = "idle"
  /\ now < MaxClock
  /\ LET r == update_conversation_or_false(conversations, conversation_id,
                                           messages, UserOf(p), now, available)
     IN  /\ conversations' = r.conversations
         /\ ret' = [ret EXCEPT ![p] =
                      LookupReturn("update_conversation", r.result,
                                   conversation_id, available)]
  /\ now' = IF available THEN now + 1 ELSE now
  /\ UNCHANGED << counters, prompts, admin_codes, pc, loc, issued, base, fixc,
                  fixp, cleanup, session,
                  users, logs, auth >>

CoreLookups ==
  \E p \in Procs, available \in BOOLEAN :
    \/ \E prompt_id \in CoreIds("P") : GetPromptById(p, prompt_id, available)
    \/ \E conversation_id \in CoreIds("C") :
         \/ GetConversationById(p, conversation_id, available)
         \/ GetConversationMessages(p, conversation_id, available)
         \/ UpdateConversationCall(p, conversation_id, DirectMessages, available)

CoreSaves ==
  \E p \in Procs :
    \/ /\ now < MaxClock
       /\ SaveConversationAllocate(p, UserOf(p), FormatId("P", 1), SystemOnly("Hi"))
    \/ SaveConversationInsert(p) /\ UNCHANGED session
    \/ SaveConversationInsertFails(p)

NextCore ==
  \/ CoreLookups
  \/ CoreSaves

SpecCore == InitChat /\ [][NextCore]_vars

\* ------------------------------------------------ create_initial_admin_code

\* The codes generate_unique_admin_code can draw.
GeneratedCodes == { "K7Q2M", "Z9X4B" }

\* count_documents({"is_active": True}).
count_active(coll) ==
  Cardinality({ j \in DOMAIN coll : coll[j].is_active })

\* What create_initial_admin_code returns when it registers nothing.
BootstrapNone == [ op |-> "create_initial_admin_code", value |-> None ]

\* create_initial_admin_code, the count: with an active code it returns None,
\* with none it goes on to generate a code.
CreateInitialCount(p) ==
  /\ pc[p] = "idle"
  /\ now < MaxAdminClock
  /\ IF count_active(admin_codes) > 0
     THEN /\ ret' = [ret EXCEPT ![p] = BootstrapNone]
          /\ UNCHANGED pc
     ELSE /\ pc' = [pc EXCEPT ![p] = "generate_admin_code"]
          /\ UNCHANGED ret
  /\ UNCHANGED << counters, conversations, prompts, admin_codes, now, loc,
                  issued, base, fixc, fixp, cleanup, session,
                  users, logs, auth >>

\* generate_unique_admin_code: a drawn code that find_one({"code": code})
\* finds no document for.
CreateInitialGenerate(p, code) ==
  /\ pc[p] = "generate_admin_code"
  /\ find_code(admin_codes, code) = 0
  /\ pc' = [pc EXCEPT ![p] = "add_initial_admin_code"]
  /\ loc' = [loc EXCEPT ![p] =
               [ code |-> code, level |-> "super_admin", added_by |-> "system" ]]
  /\ UNCHANGED << counters, conversations, prompts, admin_codes, now, ret,
                  issued, base, fixc, fixp, cleanup, session,
                  users, logs, auth >>

\* add_admin_code(code, level, added_by) inside create_initial_admin_code,
\* the find_one: an existing code makes it return False and
\* create_initial_admin_code None; otherwise the insert follows.
CreateInitialAddCheck(p) ==
  /\ pc[p] = "add_initial_admin_code"
  /\ IF find_code(admin_codes, upper(loc[p].code)) # 0
     THEN /\ ret' = [ret EXCEPT ![p] = BootstrapNone]
          /\ pc' = [pc EXCEPT ![p] = "idle"]
          /\ loc' = [loc EXCEPT ![p] = NoLocals]
     ELSE /\ pc' = [pc EXCEPT ![p] = "insert_admin_code"]
          /\ UNCHANGED << ret, loc >>
  /\ UNCHANGED << counters, conversations, prompts, admin_codes, now, issued,
                  base, fixc, fixp, cleanup, session,
                  users, logs, auth >>

\* A store with no admin code yet.
InitBootstrap ==
  /\ admin_codes = <<>>
  /\ now = 1
  /\ conversations = <<>>
  /\ prompts = <<>>
  /\ counters = [key \in CounterKeys |-> 0]
  /\ base = counters
  /\ pc = [p \in Procs |-> "idle"]
  /\ loc = [p \in Procs |-> NoLocals]
  /\ ret = [p \in Procs |-> NoReturn]
  /\ issued = <<>>
  /\ fixc = ScriptIdle
  /\ fixp = PromptScriptIdle
  /\ cleanup = CleanupIdle
  /\ session = [p \in Procs |-> NoSession]
  /\ users = <<>>
  /\ logs = <<>>
  /\ auth = [p \in Procs |-> NoAuth]

CreateInitialAdminCode ==
  \E p \in Procs :
    \/ CreateInitialCount(p)
    \/ \E code \in GeneratedCodes : CreateInitialGenerate(p, code)
    \/ CreateInitialAddCheck(p)
    \/ AddAdminCodeInsert(p)

RemoveGenerated ==
  \E p \in Procs, code \in GeneratedCodes :
    RemoveAdminCode(p, code, "system")

NextBootstrap ==
  \/ CreateInitialAdminCode
  \/ RemoveGenerated

SpecBootstrap == InitBootstrap /\ [][NextBootstrap]_vars

\* ------------------------------------------------------------------- users

\* The last datetime.utcnow() tick at which a login or a consent form starts.
MaxLoginClock == 3

\* The access codes typed into the login form.
LoginInputs == { "ab12c", "AB12C", "XY34Z" }

normalize_code_as_typed(code) == code

\* code.upper().strip() on those codes.
normalize_code(code) == IF code = "ab12c" THEN "AB12C" ELSE code

\* validate_user_code(code): five alphanumeric characters.
validate_user_code(code) == code \in { "ab12c", "AB12C", "XY34Z" }

\* What the consent checkbox gives set_data_consent and create_user;
\* data_use_consent is "None" until the user answers.
consent_of(data_consent) == IF data_consent THEN "True" ELSE "False"

\* user_data of create_user, inserted at time t.
user_data(code, data_use_consent, t) ==
  [ code             |-> code,
    data_use_consent |-> data_use_consent,
    created_at       |-> t,
    last_login       |-> t ]

\* find_one({"code": code}) on users: the position of the first document
\* with the code, 0 when there is none.
find_user(coll, code) ==
  LET hits == { j \in DOMAIN coll : coll[j].code = code }
  IN  IF hits = {} THEN 0 ELSE CHOOSE j \in hits : \A h \in hits : j <= h

\* get_user_data(code): the document, None when there is none.
get_user_data(coll, code) ==
  IF find_user(coll, code) = 0 THEN None ELSE coll[find_user(coll, code)]

\* update_last_login(code) at time t: the collection after its update_one.
update_last_login(coll, code, t) ==
  IF find_user(coll, code) = 0 THEN coll
  ELSE [coll EXCEPT ![find_user(coll, code)].last_login = t]

\* set_data_consent(code, consent): the collection after its update_one, and
\* its return value, result.matched_count > 0.
set_data_consent(coll, code, consent) ==
  LET j == find_user(coll, code)
  IN  [ users  |-> IF j = 0 THEN coll
                   ELSE [coll EXCEPT ![j].data_use_consent = consent],
        result |-> j # 0 ]

\* The locals of login_user and of the consent form.
LoginLocals(code, is_new_user, data_consent) ==
  [ next_id |-> None, user_code |-> None, prompt_id |-> None,
    messages |-> <<>>, code |-> code, is_new_user |-> is_new_user,
    data_consent |-> data_consent ]

\* What login_user or the consent form answered: "True", "False", or
\* "raised" for an exception that leaves the call.
LoginReturn(op, value, code) == [ op |-> op, value |-> value, code |-> code ]

\* login_user(code), the get_user_data: an unknown code and a user whose
\* consent is False set needs_consent and temp_code and return False; any
\* other user goes on to authenticate_user.
LoginUserRead(p, typed) ==
  LET code      == normalize_code(typed)
      user      == get_user_data(users, code)
      to_form   == IF user = None THEN TRUE
                   ELSE user.data_use_consent = "False"
  IN  /\ pc[p] = "idle"
      /\ now < MaxLoginClock
      /\ ~ auth[p].authenticated
      /\ ~ auth[p].needs_consent
      /\ IF to_form
         THEN /\ auth' = [auth EXCEPT ![p].needs_consent = TRUE,
                                      ![p].temp_code = code]
              /\ ret' = [ret EXCEPT ![p] = LoginReturn("login_user", "False", code)]
              /\ UNCHANGED << pc, loc >>
         ELSE /\ pc' = [pc EXCEPT ![p] = "authenticate_user"]
              /\ loc' = [loc EXCEPT ![p] = LoginLocals(code, FALSE, FALSE)]
              /\ UNCHANGED << auth, ret >>
      /\ UNCHANGED << counters, conversations, prompts, admin_codes, now,
                      issued, base, fixc, fixp, cleanup, session, users, logs >>

\* authenticate_user(code), the validation and its own get_user_data: with
\* no user it returns False, and so does login_user.
AuthenticateUserRead(p) ==
  /\ pc[p] = "authenticate_user"
  /\ IF validate_user_code(loc[p].code)
        /\ get_user_data(users, loc[p].code) # None
     THEN /\ pc' = [pc EXCEPT ![p] = "update_last_login"]
          /\ UNCHANGED << ret, loc >>
     ELSE /\ pc' = [pc EXCEPT ![p] = "idle"]
          /\ ret' = [ret EXCEPT ![p] =
                       LoginReturn("login_user", "False", loc[p].code)]
          /\ loc' = [loc EXCEPT ![p] = NoLocals]
  /\ UNCHANGED << counters, conversations, prompts, admin_codes, now, issued,
                  base, fixc, fixp, cleanup, session, users, logs, auth >>

\* authenticate_user, the update_last_login.
UpdateLastLogin(p) ==
  /\ pc[p] = "update_last_login"
  /\ users' = update_last_login(users, loc[p].code, now)
  /\ now' = now + 1
  /\ pc' = [pc EXCEPT ![p] = "log_login"]
  /\ UNCHANGED << counters, conversations, prompts, admin_codes, loc, ret,
                  issued, base, fixc, fixp, cleanup, session, logs, auth >>

\* The log document of log_action, written at time t.
log_data(user_code, action, t) ==
  [ user_code |-> user_code, action |-> action, timestamp |-> t ]

log_action_propagating(coll, user_code, action, t, available) ==
  [ logs   |-> IF available THEN Append(coll, log_data(user_code, action, t))
               ELSE coll,
    result |-> available,
    raised |-> ~ available ]

\* log_action(user_code, action, data) at time t: the logs after its
\* insert_one, its return value, and whether it raised. The except branch
\* prints the error and returns False, so nothing is ever raised.
log_action(coll, user_code, action, t, available) ==
  [ logs   |-> IF available THEN Append(coll, log_data(user_code, action, t))
               ELSE coll,
    result |-> available,
    raised |-> FALSE ]

\* The session after a successful login_user or consent form.
logged_in(code) ==
  [ authenticated |-> TRUE, user_code |-> code, needs_consent |-> FALSE,
    temp_code |-> None ]

\* authenticate_user from its log_action(code, "login", ...) on, and the
\* rest of login_user: the logs, the session and the answer. An exception
\* out of log_action would leave login_user before the session is set.
finish_login(coll, a, code, t, available) ==
  LET r == log_action(coll, code, "login", t, available)
  IN  [ logs   |-> r.logs,
        auth   |-> IF r.raised THEN a ELSE logged_in(code),
        result |-> IF r.raised THEN "raised" ELSE "True" ]

\* authenticate_user, the log_action, and the rest of login_user.
LogLogin(p, available) ==
  /\ pc[p] = "log_login"
  /\ LET r == finish_login(logs, auth[p], loc[p].code, now, available)
     IN  /\ logs' = r.logs
         /\ auth' = [auth EXCEPT ![p] = r.auth]
         /\ ret' = [ret EXCEPT ![p] =
                      [ op |-> "login_user", value |-> r.result,
                        code |-> loc[p].code, logged |-> << available >> ]]
  /\ pc' = [pc EXCEPT ![p] = "idle"]
  /\ loc' = [loc EXCEPT ![p] = NoLocals]
  /\ UNCHANGED << counters, conversations, prompts, admin_codes, now, issued,
                  base, fixc, fixp, cleanup, session, users >>

\* show_consent_form, "Continue": is_new_user = get_user_data(temp_code) is
\* None decides between handle_first_time_user and update_user_consent.
ConsentContinue(p, data_consent) ==
  /\ pc[p] = "idle"
  /\ auth[p].needs_consent
  /\ now < MaxLoginClock
  /\ loc' = [loc EXCEPT ![p] =
               LoginLocals(auth[p].temp_code,
                           get_user_data(users, auth[p].temp_code) = None,
                           data_consent)]
  /\ pc' = [pc EXCEPT ![p] =
              IF get_user_data(users, auth[p].temp_code) = None
              THEN "create_user" ELSE "update_user_consent"]
  /\ UNCHANGED << counters, conversations, prompts, admin_codes, now, ret,
                  issued, base, fixc, fixp, cleanup, session, users, logs,
                  auth >>

\* create_user(code, data_use_consent), the find_one: an existing user makes
\* it return False, and the form shows its error.
CreateUserCheck(p) ==
  /\ pc[p] = "create_user"
  /\ IF find_user(users, loc[p].code) # 0
     THEN /\ pc' = [pc EXCEPT ![p] = "idle"]
          /\ ret' = [ret EXCEPT ![p] =
                       LoginReturn("create_user", "False", loc[p].code)]
          /\ loc' = [loc EXCEPT ![p] = NoLocals]
     ELSE /\ pc' = [pc EXCEPT ![p] = "insert_user"]
          /\ UNCHANGED << ret, loc >>
  /\ UNCHANGED << counters, conversations, prompts, admin_codes, now, issued,
                  base, fixc, fixp, cleanup, session, users, logs, auth >>

\* The session and the logs after a consent form that succeeded: the
\* log_action of handle_first_time_user or update_user_consent, then the
\* session is set and log_user_action called. An exception out of the
\* first log_action would leave the form before the session is set.
ConsentSucceeds(p, action, available, available_login) ==
  LET r  == log_action(logs, loc[p].code, action, now, available)
      r2 == log_action(r.logs, loc[p].code,
                       IF loc[p].is_new_user THEN "consent_given"
                       ELSE "consent_updated",
                       now, available_login)
  IN  IF r.raised
      THEN /\ logs' = r.logs
           /\ ret' = [ret EXCEPT ![p] =
                        LoginReturn("consent_form", "raised", loc[p].code)]
           /\ UNCHANGED auth
      ELSE /\ logs' = r2.logs
           /\ ret' = [ret EXCEPT ![p] =
                        LoginReturn("consent_form", "True", loc[p].code)]
           /\ auth' = [auth EXCEPT ![p] = logged_in(loc[p].code)]

\* create_user, the insert_one, and what the form does with True.
CreateUserInsert(p, available, available_login) ==
  /\ pc[p] = "insert_user"
  /\ users' = Append(users, user_data(loc[p].code,
                                      consent_of(loc[p].data_consent), now))
  /\ now' = now + 1
  /\ ConsentSucceeds(p, "user_created", available, available_login)
  /\ pc' = [pc EXCEPT ![p] = "idle"]
  /\ loc' = [loc EXCEPT ![p] = NoLocals]
  /\ UNCHANGED << counters, conversations, prompts, admin_codes, issued, base,
                  fixc, fixp, cleanup, session >>

\* create_user, the insert_one raises: the except branch returns False.
CreateUserInsertFails(p) ==
  /\ pc[p] = "insert_user"
  /\ pc' = [pc EXCEPT ![p] = "idle"]
  /\ ret' = [ret EXCEPT ![p] = LoginReturn("create_user", "False", loc[p].code)]
  /\ loc' = [loc EXCEPT ![p] = NoLocals]
  /\ UNCHANGED << counters, conversations, prompts, admin_codes, now, issued,
                  base, fixc, fixp, cleanup, session, users, logs, auth >>

\* update_user_consent(code, consent): set_data_consent, and what the form
\* does with its answer.
UpdateUserConsent(p, available, available_login) ==
  /\ pc[p] = "update_user_consent"
  /\ LET r == set_data_consent(users, loc[p].code,
                               consent_of(loc[p].data_consent))
     IN  /\ users' = r.users
         /\ IF r.result
            THEN ConsentSucceeds(p, "consent_updated", available,
                                 available_login)
            ELSE /\ ret' = [ret EXCEPT ![p] =
                              LoginReturn("consent_form", "False", loc[p].code)]
                 /\ UNCHANGED << logs, auth >>
  /\ now' = now + 1
  /\ pc' = [pc EXCEPT ![p] = "idle"]
  /\ loc' = [loc EXCEPT ![p] = NoLocals]
  /\ UNCHANGED << counters, conversations, prompts, admin_codes, issued, base,
                  fixc, fixp, cleanup, session >>

\* show_consent_form, "Cancel": needs_consent is cleared, temp_code deleted.
ConsentCancel(p) ==
  /\ pc[p] = "idle"
  /\ auth[p].needs_consent
  /\ auth' = [auth EXCEPT ![p].needs_consent = FALSE, ![p].temp_code = None]
  /\ UNCHANGED << counters, conversations, prompts, admin_codes, now, pc, loc,
                  ret, issued, base, fixc, fixp, cleanup, session, users,
                  logs >>

\* logout_user: log_action(user_code, "logout", {}), then authenticated,
\* user_code, needs_consent and temp_code are cleared.
LogoutUser(p, available) ==
  /\ pc[p] = "idle"
  /\ auth[p].authenticated
  /\ LET r == log_action(logs, auth[p].user_code, "logout", now, available)
     IN  /\ logs' = r.logs
         /\ auth' = [auth EXCEPT ![p] = IF r.raised THEN @ ELSE NoAuth]
  /\ UNCHANGED << counters, conversations, prompts, admin_codes, now, pc, loc,
                  ret, issued, base, fixc, fixp, cleanup, session, users >>

\* The users before anybody logs in: AB12C was created by the code scripts
\* with no consent yet, or has refused; XY34Z is unknown.
InitLogin ==
  /\ \E consent \in { "None", "False" } :
       users = << user_data("AB12C", consent, 1) >>
  /\ logs = <<>>
  /\ auth = [p \in Procs |-> NoAuth]
  /\ now = 2
  /\ prompts = <<>>
  /\ conversations = <<>>
  /\ counters = [key \in CounterKeys |-> 0]
  /\ base = counters
  /\ admin_codes = <<>>
  /\ pc = [p \in Procs |-> "idle"]
  /\ loc = [p \in Procs |-> NoLocals]
  /\ ret = [p \in Procs |-> NoReturn]
  /\ issued = <<>>
  /\ fixc = ScriptIdle
  /\ fixp = PromptScriptIdle
  /\ cleanup = CleanupIdle
  /\ session = [p \in Procs |-> NoSession]

LoginUser ==
  \E p \in Procs :
    \/ \E typed \in LoginInputs : LoginUserRead(p, typed)
    \/ AuthenticateUserRead(p)
    \/ UpdateLastLogin(p)
    \/ \E available \in BOOLEAN : LogLogin(p, available)

ShowConsentForm ==
  \E p \in Procs :
    \/ \E data_consent \in BOOLEAN : ConsentContinue(p, data_consent)
    \/ CreateUserCheck(p)
    \/ \E available \in BOOLEAN, available_login \in BOOLEAN :
         \/ CreateUserInsert(p, available, available_login)
         \/ UpdateUserConsent(p, available, available_login)
    \/ CreateUserInsertFails(p)
    \/ ConsentCancel(p)

Logout == \E p \in Procs, available \in BOOLEAN : LogoutUser(p, available)

NextLogin ==
  \/ LoginUser
  \/ ShowConsentForm
  \/ Logout

SpecLogin == InitLogin /\ [][NextLogin]_vars

\* ------------------------------------------- the pages of a logged-in user

\* The last datetime.utcnow() tick at which a page of a session acts.
MaxSessionClock == 4

\* The message handle_user_message appends for a role.
message_of(role, content) == [ role |-> role, content |-> content ]

\* handle_user_message(user_input, user_code) when the completion arrives
\* whole: the user message is appended and logged, the assistant message is
\* appended and logged inside the try, and update_conversation called. An
\* exception out of the first log_chat_message would leave the function, one
\* out of the second would reach the except branch before the update.
handle_user_message(coll, messages, conversation_id, user_code, user_input, assistant_response, t, log, available) ==
  LET with_user == Append(messages, message_of("user", user_input))
      with_both == Append(with_user,
                          message_of("assistant", assistant_response))
      r1 == log_action(log, user_code, "chat_message", t, available[1])
      r2 == log_action(r1.logs, user_code, "chat_message", t, available[2])
      u  == update_conversation(coll, conversation_id, with_both, user_code, t)
  IN  IF r1.raised
      THEN [ conversations |-> coll, messages |-> with_user,
             logs |-> r1.logs, result |-> "raised" ]
      ELSE IF r2.raised
      THEN [ conversations |-> coll, messages |-> with_both,
             logs |-> r2.logs, result |-> "error" ]
      ELSE [ conversations |-> u.conversations, messages |-> with_both,
             logs |-> r2.logs, result |-> "completed" ]

\* start_new_conversation(prompt_id, user_code) for a prompt with the given
\* content, when save_conversation succeeds: the counter, the stored
\* conversation, the session, and log_conversation_start and
\* log_prompt_selection after them.
start_new_conversation(cnt, coll, user_code, prompt_id, content, t, log, available) ==
  LET next_id == FormatId("C", returned_sequence(cnt, ConversationKey))
      r1 == log_action(log, user_code, "conversation_start", t, available[1])
      r2 == log_action(r1.logs, user_code, "prompt_selection", t, available[2])
  IN  [ counters      |-> find_one_and_update_inc(cnt, ConversationKey),
        conversations |-> Append(coll, conversation_data(next_id, user_code,
                            prompt_id, SystemOnly(content), t)),
        session       |-> [ current_conversation |-> next_id,
                            current_prompt       |-> prompt_id,
                            messages             |-> SystemOnly(content) ],
        logs          |-> IF r1.raised THEN r1.logs ELSE r2.logs,
        result        |-> IF r1.raised \/ r2.raised THEN "raised"
                          ELSE "completed" ]

\* create_new_prompt(user_code, content, documents) when save_prompt
\* succeeds: the counter, the stored prompt, and log_prompt_creation.
create_new_prompt(cnt, coll, user_code, content, t, log, available) ==
  LET next_id == FormatId("P", returned_sequence(cnt, PromptKey(user_code)))
      r == log_action(log, user_code, "prompt_create", t, available[1])
  IN  [ counters |-> find_one_and_update_inc(cnt, PromptKey(user_code)),
        prompts  |-> Append(coll, prompt_data(next_id, user_code, content,
                                              <<>>, t)),
        logs     |-> r.logs,
        result   |-> IF r.raised THEN "raised" ELSE next_id ]

\* Which of the log writes of an operation reach the store.
LogOutcomes == { << TRUE, TRUE >>, << FALSE, TRUE >>, << TRUE, FALSE >>,
                 << FALSE, FALSE >> }

\* What a page's operation left behind: its answer, the user's input, and
\* which of its log writes reached the store.
PageReturn(op, value, input, available) ==
  [ op |-> op, value |-> value, input |-> input, logged |-> available ]

\* handle_user_message in the session of a logged-in user.
HandleUserMessageOfSession(p, user_input, assistant_response, available) ==
  /\ pc[p] = "idle"
  /\ auth[p].authenticated
  /\ session[p].current_conversation # None
  /\ now < MaxSessionClock
  /\ LET r == handle_user_message(conversations, session[p].messages,
                session[p].current_conversation, auth[p].user_code,
                user_input, assistant_response, now, logs, available)
     IN  /\ conversations' = r.conversations
         /\ session' = [session EXCEPT ![p].messages = r.messages]
         /\ logs' = r.logs
         /\ ret' = [ret EXCEPT ![p] =
                      PageReturn("handle_user_message", r.result, user_input,
                                 available)]
  /\ now' = now + 1
  /\ UNCHANGED << counters, prompts, admin_codes, pc, loc, issued, base, fixc,
                  fixp, cleanup, users, auth >>

\* start_new_conversation in the session of a logged-in user, for a prompt
\* of theirs.
StartNewConversationOfSession(p, prompt_id, available) ==
  LET j == get_prompt_with_documents(prompts, prompt_id, auth[p].user_code)
      r == start_new_conversation(counters, conversations, auth[p].user_code,
             prompt_id, prompts[j].content, now, logs, available)
  IN  /\ pc[p] = "idle"
      /\ auth[p].authenticated
      /\ j # 0
      /\ Len(issued) < MaxPageSaves
      /\ now < MaxSessionClock
      /\ counters' = r.counters
      /\ conversations' = r.conversations
      /\ session' = [session EXCEPT ![p] = r.session]
      /\ logs' = r.logs
      /\ issued' = Append(issued,
                     [ proc |-> p, key |-> ConversationKey,
                       sequence |-> returned_sequence(counters, ConversationKey) ])
      /\ ret' = [ret EXCEPT ![p] =
                   PageReturn("start_new_conversation", r.result, prompt_id,
                              available)]
      /\ now' = now + 1
      /\ UNCHANGED << prompts, admin_codes, pc, loc, base, fixc, fixp,
                      cleanup, users, auth >>

\* create_new_prompt in the session of a logged-in user.
CreateNewPromptOfSession(p, content, available) ==
  LET r == create_new_prompt(counters, prompts, auth[p].user_code, content,
                             now, logs, available)
  IN  /\ pc[p] = "idle"
      /\ auth[p].authenticated
      /\ Len(issued) < MaxPageSaves
      /\ now < MaxSessionClock
      /\ counters' = r.counters
      /\ prompts' = r.prompts
      /\ logs' = r.logs
      /\ issued' = Append(issued,
                     [ proc |-> p, key |-> PromptKey(auth[p].user_code),
                       sequence |-> returned_sequence(counters,
                                      PromptKey(auth[p].user_code)) ])
      /\ ret' = [ret EXCEPT ![p] =
                   PageReturn("create_new_prompt", r.result, content,
                              available)]
      /\ now' = now + 1
      /\ UNCHANGED << conversations, admin_codes, pc, loc, base, fixc, fixp,
                      cleanup, session, users, auth >>

\* load_conversation in the session of a logged-in user: the session takes
\* the stored messages of the user's conversation.
LoadConversationOfSession(p, conversation_id) ==
  /\ pc[p] = "idle"
  /\ auth[p].authenticated
  /\ LET j == first_match(conversations, conversation_id, auth[p].user_code)
     IN  /\ j # 0
         /\ session' = [session EXCEPT ![p] =
              [ current_conversation |-> conversation_id,
                current_prompt       |-> conversations[j].prompt_id,
                messages             |-> get_conversation_messages(
                                           conversations, conversation_id,
                                           auth[p].user_code) ]]
  /\ UNCHANGED << counters, conversations, prompts, admin_codes, now, pc, loc,
                  ret, issued, base, fixc, fixp, cleanup, users, logs, auth >>

\* What the user types in a turn.
UserInputs == { "Hi", "Why" }

\* The store when AB12C, who has one prompt and one conversation, opens the
\* application in two browsers.
InitSession ==
  /\ users = << user_data("AB12C", "True", 1) >>
  /\ prompts = << prompt_data(FormatId("P", 1), "AB12C",
                              "Explain photosynthesis", <<>>, 1) >>
  /\ conversations =
       << conversation_data(FormatId("C", 1), "AB12C", FormatId("P", 1),
                            SystemOnly("Explain photosynthesis"), 1) >>
  /\ counters = [key \in CounterKeys |->
                   IF key = PromptKey("XY34Z") THEN 0 ELSE 1]
  /\ now = 2
  /\ base = counters
  /\ logs = <<>>
  /\ auth = [p \in Procs |-> NoAuth]
  /\ admin_codes = <<>>
  /\ pc = [p \in Procs |-> "idle"]
  /\ loc = [p \in Procs |-> NoLocals]
  /\ ret = [p \in Procs |-> NoReturn]
  /\ issued = <<>>
  /\ fixc = ScriptIdle
  /\ fixp = PromptScriptIdle
  /\ cleanup = CleanupIdle
  /\ session = [p \in Procs |-> NoSession]

LoginOfSession ==
  \E p \in Procs :
    \/ LoginUserRead(p, "AB12C")
    \/ AuthenticateUserRead(p)
    \/ UpdateLastLogin(p)
    \/ \E available \in BOOLEAN : LogLogin(p, available)

PagesOfSession ==
  \E p \in Procs :
    \/ LoadConversationOfSession(p, FormatId("C", 1))
    \/ \E available \in LogOutcomes :
         \/ HandleUserMessageOfSession(p, "Hi", "Explain photosynthesis",
                                       available)
         \/ StartNewConversationOfSession(p, FormatId("P", 1), available)
         \/ CreateNewPromptOfSession(p, "Hi", available)

NextSession ==
  \/ LoginOfSession
  \/ PagesOfSession

SpecSession == InitSession /\ [][NextSession]_vars

\* The same store when both browsers are logged in.
InitShared ==
  /\ users = << user_data("AB12C", "True", 1) >>
  /\ prompts = << prompt_data(FormatId("P", 1), "AB12C",
                              "Explain photosynthesis", <<>>, 1) >>
  /\ conversations =
       << conversation_data(FormatId("C", 1), "AB12C", FormatId("P", 1),
                            SystemOnly("Explain photosynthesis"), 1) >>
  /\ counters = [key \in CounterKeys |->
                   IF key = PromptKey("XY34Z") THEN 0 ELSE 1]
  /\ now = 2
  /\ base = counters
  /\ logs = <<>>
  /\ auth = [p \in Procs |-> logged_in("AB12C")]
  /\ admin_codes = <<>>
  /\ pc = [p \in Procs |-> "idle"]
  /\ loc = [p \in Procs |-> NoLocals]
  /\ ret = [p \in Procs |-> NoReturn]
  /\ issued = <<>>
  /\ fixc = ScriptIdle
  /\ fixp = PromptScriptIdle
  /\ cleanup = CleanupIdle
  /\ session = [p \in Procs |-> NoSession]

NextShared ==
  \E p \in Procs :
    \/ LoadConversationOfSession(p, FormatId("C", 1))
    \/ \E user_input \in UserInputs, available \in LogOutcomes :
         HandleUserMessageOfSession(p, user_input, "Explain photosynthesis",
                                    available)

SpecShared == InitShared /\ [][NextShared]_vars

\* ------------------------------------------------ the two saves on their own

\* save_conversation and save_prompt called by the pages, with no script
\* running.
NextSaves ==
  \/ SaveConversation
  \/ SavePrompt

SpecSaves == Init /\ [][NextSaves]_vars

\* ------------------------------------- the repair on prompts in use by chats

\* The conversations started from stored prompts: one per prompt that has a
\* prompt_id, by the prompt's owner, in the order of the prompts.
RECURSIVE ConversationsFrom(_)
ConversationsFrom(coll) ==
  IF coll = <<>> THEN <<>>
  ELSE LET earlier == ConversationsFrom(SubSeq(coll, 1, Len(coll) - 1))
           prompt  == coll[Len(coll)]
       IN  IF prompt.prompt_id = None THEN earlier
           ELSE Append(earlier,
                  conversation_data(FormatId("C", Len(earlier) + 1),
                                    prompt.user_code, prompt.prompt_id,
                                    SystemOnly(prompt.content),
                                    MaxLegacy + Len(earlier) + 1))

\* A store whose prompts have duplicated, missing or skipped IDs, and the
\* conversations started from them.
InitRenumber ==
  /\ prompts \in LegacyPrompts
  /\ conversations = ConversationsFrom(prompts)
  /\ counters \in LegacyCounters
  /\ now = 2 * MaxLegacy + 1
  /\ base = counters
  /\ admin_codes = <<>>
  /\ pc = [p \in Procs |-> "idle"]
  /\ loc = [p \in Procs |-> NoLocals]
  /\ ret = [p \in Procs |-> NoReturn]
  /\ issued = <<>>
  /\ fixc = ScriptIdle
  /\ fixp = PromptScriptIdle
  /\ cleanup = CleanupIdle
  /\ session = [p \in Procs |-> NoSession]
  /\ users = <<>>
  /\ logs = <<>>
  /\ auth = [p \in Procs |-> NoAuth]

SpecRenumber == InitRenumber /\ [][NextFix]_vars

\* ------------------------------------------------- one turn after another

\* The store of the chat page with time for two turns: the prompts and the
\* conversation of AB12C, nothing else running.
InitTurns ==
  /\ prompts = << prompt_data(FormatId("P", 1), "AB12C",
                              "Explain photosynthesis", <<>>, 1) >>
  /\ conversations =
       << conversation_data(FormatId("C", 1), "AB12C", FormatId("P", 1),
                            SystemOnly("Explain photosynthesis"), 2) >>
  /\ counters = [key \in CounterKeys |->
                   IF key = PromptKey("XY34Z") THEN 0 ELSE 1]
  /\ now = MaxClock - 2
  /\ base = counters
  /\ admin_codes = <<>>
  /\ pc = [p \in Procs |-> "idle"]
  /\ loc = [p \in Procs |-> NoLocals]
  /\ ret = [p \in Procs |-> NoReturn]
  /\ issued = <<>>
  /\ fixc = ScriptIdle
  /\ fixp = PromptScriptIdle
  /\ cleanup = CleanupIdle
  /\ session = [p \in Procs |-> NoSession]
  /\ users = <<>>
  /\ logs = <<>>
  /\ auth = [p \in Procs |-> NoAuth]

NextTurns ==
  \/ LoadConversationOfPage
  \/ HandleUserMessageOfPage

SpecTurns == InitTurns /\ [][NextTurns]_vars

\* ----------------------------------------------------------------- claims

\* No repair script has started: only the save_* calls have touched the store.
NoScriptStarted ==
  fixc.pc = "idle" /\ fixp.pc = "idle" /\ cleanup.pc = "idle"

\* The positions of the allocations made from one counter.
IssuedFrom(key) == { i \in DOMAIN issued : issued[i].key = key }

\* The sequence numbers obtained from one counter.
SequencesFrom(key) == { issued[i].sequence : i \in IssuedFrom(key) }

\* C1: with the counter at k before a burst of N interleaved
\* save_conversation calls and no script running, the N sequence numbers
\* obtained are pairwise distinct and are exactly {k+1, ..., k+N}.
C1_BurstIsContiguous ==
  NoScriptStarted =>
    LET k == base[ConversationKey]
        N == Cardinality(IssuedFrom(ConversationKey))
    IN  /\ \A i, j \in IssuedFrom(ConversationKey) :
             i # j => issued[i].sequence # issued[j].sequence
        /\ SequencesFrom(ConversationKey) = (k + 1)..(k + N)

\* C1's case: both processes hold an allocated number before either has
\* inserted, from a counter above 0.
C1_Witness ==
  /\ NoScriptStarted
  /\ \A p \in Procs : pc[p] = "insert_conversation"
  /\ Cardinality(IssuedFrom(ConversationKey)) >= 2
  /\ base[ConversationKey] > 0

\* No script is in the middle of a run and no save_* call is between its two
\* store operations.
AtRest ==
  /\ fixc.pc \in {"idle", "done"}
  /\ fixp.pc \in {"idle", "done"}
  /\ cleanup.pc \in {"idle", "done"}
  /\ \A p \in Procs : pc[p] = "idle"

\* C2: two processes that call save_prompt for the same user again and
\* again, interleaved, never obtain the same sequence number twice, and a
\* user's counter moves only by that user's own allocations.
C2_PromptAllocationsDistinct ==
  NoScriptStarted =>
    \A u \in Users :
      /\ \A i, j \in IssuedFrom(PromptKey(u)) :
           i # j => issued[i].sequence # issued[j].sequence
      /\ counters[PromptKey(u)] =
           base[PromptKey(u)] + Cardinality(IssuedFrom(PromptKey(u)))

\* C2's case: both processes are between their allocation and their insert
\* for the same user, one of them in its second call for that user.
C2_Witness ==
  /\ NoScriptStarted
  /\ \A p \in Procs : pc[p] = "insert_prompt"
  /\ \E u \in Users :
       /\ \A p \in Procs : loc[p].user_code = u
       /\ \A p \in Procs : \E i \in IssuedFrom(PromptKey(u)) : issued[i].proc = p
       /\ Cardinality(IssuedFrom(PromptKey(u))) >= 3

\* C3: no two stored conversations have the same conversation_id, after any
\* interleaving of save_conversation, fix_conversation_ids and
\* cleanup_conversations. Stated for the states at rest, which are among the
\* reachable states the claim speaks of.
C3_UniqueConversationIds ==
  AtRest =>
    \A i, j \in DOMAIN conversations :
      i # j => conversations[i].conversation_id # conversations[j].conversation_id

\* C4: no two stored prompts of the same user have the same prompt_id, after
\* any interleaving of save_prompt and fix_prompt_ids. Stated for the states
\* at rest, which are among the reachable states the claim speaks of.
C4_UniquePromptIdsPerUser ==
  AtRest =>
    \A i, j \in DOMAIN prompts :
      (i # j /\ prompts[i].user_code = prompts[j].user_code)
        => prompts[i].prompt_id # prompts[j].prompt_id

\* C5: a counter's sequence never decreases and changes only by an
\* increment of 1, whatever operation touches it.
C5_CountersOnlyIncrement ==
  [][ \A key \in CounterKeys :
        counters'[key] = counters[key] \/ counters'[key] = counters[key] + 1 ]_vars

\* The sum of the stored token_count of the messages with one of the roles.
RECURSIVE SumStored(_, _)
SumStored(messages, roles) ==
  IF messages = <<>> THEN 0
  ELSE (IF messages[1].role \in roles THEN messages[1].token_count ELSE 0)
       + SumStored(Tail(messages), roles)

\* The stored statistics of a conversation are those of its stored messages.
StatsMatch(conv) ==
  /\ \A i \in DOMAIN conv.messages :
       conv.messages[i].token_count =
         count_message_tokens(conv.messages[i].role, conv.messages[i].content)
  /\ conv.token_stats.total_input_tokens =
       SumStored(conv.messages, {"system", "user"})
  /\ conv.token_stats.total_output_tokens =
       SumStored(conv.messages, {"assistant"})

\* C6: every conversation written by save_conversation or update_conversation
\* stores token_stats equal to the statistics recomputed from its stored
\* messages (input: system and user messages, output: assistant messages),
\* and no step changes messages or token_stats of a stored conversation
\* without writing the other in the same update, which also sets updated_at.
C6_TokenStatsMatchMessages ==
  /\ [](\A j \in DOMAIN conversations : StatsMatch(conversations[j]))
  /\ [][ \A j \in DOMAIN conversations :
           ( \/ conversations'[j].messages # conversations[j].messages
             \/ conversations'[j].token_stats # conversations[j].token_stats )
           => /\ StatsMatch(conversations'[j])
              /\ conversations'[j].updated_at # conversations[j].updated_at ]_vars

\* C6's case: an update_conversation has succeeded and a stored conversation
\* holds an answered turn, with output tokens, updated after its creation.
C6_Witness ==
  /\ \E p \in Procs : ret[p].op = "update_conversation" /\ ret[p].value
  /\ \E j \in DOMAIN conversations :
       /\ conversations[j].updated_at > conversations[j].created_at
       /\ conversations[j].token_stats.total_output_tokens > 0
       /\ conversations[j].token_stats.total_input_tokens > 0
       /\ Len(conversations[j].messages) >= 3

\* C7: a call of remove_admin_code or remove_admin_code_auth on a code stored
\* with level super_admin returns failure and leaves that code's is_active
\* as it was.
C7_SuperAdminIsNotRemoved ==
  [][ \A p \in Procs :
        ( /\ ret'[p] # ret[p]
          /\ ret'[p].op \in {"remove_admin_code", "remove_admin_code_auth"}
          /\ \E j \in DOMAIN admin_codes :
               /\ admin_codes[j].code = ret'[p].code
               /\ admin_codes[j].level = "super_admin" )
        => /\ ret'[p].value = FALSE
           /\ \A j \in DOMAIN admin_codes :
                admin_codes[j].code = ret'[p].code
                  => admin_codes'[j].is_active = admin_codes[j].is_active ]_vars

\* C8: a call of update_conversation without a user_code returns failure and
\* leaves the stored conversations (messages, token_stats, updated_at) as
\* they were.
C8_NoUserCodeFailsClosed ==
  [][ \A p \in Procs :
        ( /\ ret'[p] # ret[p]
          /\ ret'[p].op = "update_conversation"
          /\ ret'[p].user_code = NoUserCode )
        => /\ ret'[p].value = FALSE
           /\ conversations' = conversations ]_vars

\* An ID no conversation ever carries: sequence numbers start at 1.
UnknownId == FormatId("C", 0)

\* The user owns no conversation with the ID.
NotOwned(conversation_id, user_code) ==
  \A j \in DOMAIN conversations :
    ~ ( /\ conversations[j].conversation_id = conversation_id
        /\ conversations[j].user_code = user_code )

\* C9: update_conversation called with the user_code of a user who does not
\* own the conversation with the given ID returns failure and changes no
\* conversation, exactly as it does for an ID that no conversation carries;
\* and every such call made has returned failure.
C9_NonOwnerUpdateIsNotFound ==
  /\ first_match(conversations, UnknownId, NoUserCode) = 0
  /\ \A conversation_id \in ChatIds, user_code \in Users :
       NotOwned(conversation_id, user_code) =>
         LET r == update_conversation(conversations, conversation_id,
                                      DirectMessages, user_code, now)
             unknown == update_conversation(conversations, UnknownId,
                                            DirectMessages, user_code, now)
         IN  /\ r.result = FALSE
             /\ r.conversations = conversations
             /\ r = unknown
  /\ \A p \in Procs :
       ( /\ ret[p].op = "update_conversation"
         /\ ret[p].user_code \in Users
         /\ NotOwned(ret[p].conversation_id, ret[p].user_code) )
       => ret[p].value = FALSE

\* C9's case: an update_conversation call with a user's code, on the ID of a
\* conversation another user owns, has returned failure.
C9_Witness ==
  \E p \in Procs :
    /\ ret[p].op = "update_conversation"
    /\ ret[p].user_code \in Users
    /\ ret[p].value = FALSE
    /\ \E j \in DOMAIN conversations :
         /\ conversations[j].conversation_id = ret[p].conversation_id
         /\ conversations[j].user_code # ret[p].user_code

\* The i-th record read carries the prefix and i, zero-padded.
IsCanonical(docs, field, prefix) ==
  \A i \in DOMAIN docs : docs[i][field] = FormatId(prefix, i)

\* The run of a repair script has issued no update on a record.
WroteNothing(script) ==
  script.writes = 0 /\ script.renumbered_count = 0 /\ script.duplicate_count = 0

\* C10: a run of fix_conversation_ids / fix_prompt_ids that reads records
\* whose IDs are already canonical writes no record, and so does the second
\* run right after a first one, whatever the first one found.
C10_RepairIsIdempotent ==
  /\ ( \/ IsCanonical(fixc.docs, "conversation_id", "C")
       \/ fixc.runs >= 2 )
     => WroteNothing(fixc)
  /\ ( \/ \A g \in DOMAIN fixp.user_prompts :
            IsCanonical(fixp.user_prompts[g].user_prompt_list, "prompt_id", "P")
       \/ fixp.runs >= 2 )
     => WroteNothing(fixp)

\* C10's case: the second run has ended on a full collection that the first
\* run had to renumber, a duplicate among its records.
C10_Witness ==
  /\ fixc.runs = 2
  /\ fixc.pc = "done"
  /\ Len(fixc.docs) = MaxLegacy
  /\ fixc.earlier_writes >= 2
  /\ IsCanonical(fixc.docs, "conversation_id", "C")

\* p's last call was update_prompt_token_counts, the call before it was too,
\* and the prompts were touched by nothing else from the end of the first to
\* the end of the second: the second read what the first left, and no prompt
\* was added while it ran.
SecondRunInARow(p) ==
  /\ ret[p].op = "update_prompt_token_counts"
  /\ ret[p].previous_op = "update_prompt_token_counts"
  /\ ret[p].read = ret[p].previous_after
  /\ Len(ret[p].after) = Len(ret[p].read)

\* C11: update_prompt_token_counts run twice in a row with no other operation
\* in between: the second run returns 0 and leaves every prompt document as
\* it was.
C11_SecondBackfillChangesNothing ==
  \A p \in Procs :
    SecondRunInARow(p) => /\ ret[p].value = 0
                          /\ ret[p].after = ret[p].read

\* C11 happens: a second run in a row has returned after a first run that
\* rewrote at least one prompt.
C11_Witness ==
  \E p \in Procs :
    /\ SecondRunInARow(p)
    /\ ret[p].previous_value > 0
    /\ ret[p].read # <<>>

\* The tokens of the documents of a stored prompt, summed from the encoding.
RECURSIVE SumDocumentTokens(_)
SumDocumentTokens(documents) ==
  IF documents = <<>> THEN 0
  ELSE encode_len(documents[1].content) + SumDocumentTokens(Tail(documents))

\* The three counts of a stored prompt are those of its content and documents.
CountsAddUp(doc) ==
  /\ doc.prompt_token_count = encode_len(doc.content)
  /\ doc.document_token_count = IF "documents" \in DOMAIN doc
                                THEN SumDocumentTokens(doc.documents) ELSE 0
  /\ doc.total_token_count = doc.prompt_token_count + doc.document_token_count

\* C12: every prompt document written by save_prompt or rewritten by
\* update_prompt_token_counts has total_token_count = prompt_token_count +
\* document_token_count, the first being the tokens of its content and the
\* second the sum of the tokens of its documents (0 with none).
C12_TotalIsPromptPlusDocuments ==
  \A j \in 1..Len(prompts) :
    TokenFields \subseteq DOMAIN prompts[j] => CountsAddUp(prompts[j])

\* C12 happens: a run has rewritten a prompt whose documents have tokens, and
\* save_prompt has written one with documents too.
C12_Witness ==
  /\ \E p \in Procs :
       /\ ret[p].op = "update_prompt_token_counts"
       /\ \E j \in 1..Len(ret[p].read) :
            /\ ret[p].after[j] # ret[p].read[j]
            /\ ret[p].after[j].document_token_count > 0
            /\ prompts[j] = ret[p].after[j]
  /\ \E j \in 1..Len(prompts) :
       /\ prompts[j]._id > MaxLegacy
       /\ prompts[j].document_token_count > 0

\* Content the prompt form takes for none.
BlankContents == { "", "  " }

\* C19: a prompt submitted with empty content is rejected before any store
\* write: the user's prompt counter is not incremented and no prompt
\* document is inserted, so no save_prompt is ever under way with, and no
\* prompt is ever stored with, empty content.
C19_BlankPromptIsRejected ==
  /\ [](/\ \A p \in Procs :
             pc[p] = "insert_prompt" => loc[p].content \notin BlankContents
        /\ \A j \in 1..Len(prompts) : prompts[j].content \notin BlankContents)
  /\ [][\A p \in Procs :
          (ret'[p] = PromptRejected /\ ret[p] # PromptRejected)
            => /\ counters' = counters
               /\ prompts' = prompts
               /\ pc' = pc
               /\ issued' = issued]_vars

\* C19 happens: the form has created a prompt and then rejected a blank
\* submission of the same user.
C19_Witness ==
  \E p \in Procs :
    /\ ret[p] = PromptRejected
    /\ \E j \in 1..Len(prompts) :
         /\ prompts[j]._id > MaxLegacy
         /\ prompts[j].user_code = UserOf(p)

\* C13: every stored conversation has at least one message and its first
\* message has role system, after save_conversation and after every
\* update_conversation the chat page issues, a session loaded during a store
\* read failure included.
C13_FirstMessageIsSystem ==
  \A j \in 1..Len(conversations) :
    /\ Len(conversations[j].messages) >= 1
    /\ conversations[j].messages[1].role = "system"

\* What the same lookup answers, with the store available, for an ID that no
\* record carries.
MissingAnswer(op, user_code) ==
  CASE op = "get_prompt_by_id" ->
         get_prompt_by_id(prompts, FormatId("P", 9), user_code, TRUE)
    [] op = "get_conversation_by_id" ->
         get_conversation_by_id(conversations, FormatId("C", 9), user_code, TRUE)
    [] op = "get_conversation_messages" ->
         get_conversation_messages_or_empty(conversations, FormatId("C", 9),
                                            user_code, TRUE)
    [] op = "update_conversation" ->
         update_conversation_or_false(conversations, FormatId("C", 9),
                                      DirectMessages, user_code, now, TRUE).result

\* C14: with the store unavailable, a read or write of the core yields an
\* outcome the caller can tell apart from "not found" or "empty": a store
\* failure is never returned as the value a missing record is answered with.
C14_FailureIsNotNotFound ==
  \A p \in Procs :
    (ret[p].op \in LookupOps /\ ~ ret[p].available)
      => ret[p].value # MissingAnswer(ret[p].op, UserOf(p))

\* The conversation of p's session as stored.
StoredOf(p, conversation_id) ==
  get_conversation_by_id(conversations, conversation_id, UserOf(p), TRUE)

\* The roles and contents of a message list, without the token counts.
SaidIn(messages) ==
  [ i \in 1..Len(messages) |->
      [ role |-> messages[i].role, content |-> messages[i].content ] ]

\* This step ends p's turn with the stream completed.
CompletesTurn(p) ==
  /\ pc[p] = "streaming"
  /\ pc'[p] = "idle"
  /\ ret'[p].op = "handle_user_message"
  /\ ret'[p].value = "completed"

\* This step is a step of p's turn: it starts it, or it takes it further.
StepOfTurn(p) ==
  \/ pc[p] = "idle" /\ pc'[p] = "streaming"
  \/ pc[p] = "streaming" /\ (pc'[p] # pc[p] \/ loc'[p] # loc[p])

\* C15: when the completion stream fails or is abandoned before it
\* completes, no write to the conversation is issued for the turn: the
\* stored messages and token_stats are what they were before the user's
\* message and no partial assistant text is stored; the assistant message is
\* written once, by the step that ends the completed stream.
C15_NoWriteWithoutCompletion ==
  /\ [](\A p \in Procs :
          /\ pc[p] = "streaming"
               => StoredOf(p, session[p].current_conversation) = loc[p].before
          /\ (ret[p].op = "handle_user_message" /\ ret[p].value # "completed"
                /\ pc[p] = "idle")
               => StoredOf(p, ret[p].conversation_id) = ret[p].before)
  /\ [][\A p \in Procs :
          /\ (StepOfTurn(p) /\ ~ CompletesTurn(p))
               => conversations' = conversations
          /\ CompletesTurn(p)
               => LET stored == StoredOf(p, session[p].current_conversation)'
                  IN  /\ SaidIn(stored.messages) = SaidIn(session'[p].messages)
                      /\ stored.messages[Len(stored.messages)].role = "assistant"
                      /\ Len(stored.messages) = Len(session[p].messages) + 1]_vars

\* C15 happens: a turn has failed after a chunk of the answer had arrived,
\* and the user's message is still in the session.
C15_Witness ==
  \E p \in Procs :
    /\ ret[p].op = "handle_user_message"
    /\ ret[p].value = "error"
    /\ ret[p].chunks > 0
    /\ pc[p] = "idle"
    /\ session[p].messages[Len(session[p].messages)].role = "user"

\* The positions of the admin_codes documents of a code, and of its active
\* ones.
DocsOfCode(code) ==
  { j \in 1..Len(admin_codes) : admin_codes[j].code = upper(code) }

ActiveDocsOfCode(code) ==
  { j \in DocsOfCode(code) : admin_codes[j].is_active }

\* A code that was removed: it has documents, and none of them is active.
SoftDeleted(code) == DocsOfCode(code) # {} /\ ActiveDocsOfCode(code) = {}

\* C16: is_admin_code is true, and get_admin_level gives a level, only for a
\* code that has a document with is_active = true; for a soft-deleted code
\* is_admin_code is false, get_admin_level is none and is_super_admin is
\* false, whatever was added and removed before.
C16_OnlyActiveCodesAreAdmin ==
  \A code \in AdminInputs :
    /\ is_admin_code(admin_codes, code) <=> ActiveDocsOfCode(code) # {}
    /\ get_admin_level(admin_codes, code) # "None"
         => \E j \in ActiveDocsOfCode(code) :
              admin_codes[j].level = get_admin_level(admin_codes, code)
    /\ SoftDeleted(code)
         => /\ ~ is_admin_code(admin_codes, code)
            /\ get_admin_level(admin_codes, code) = "None"
            /\ ~ is_super_admin(admin_codes, code)

\* C16 happens: a super_admin code was removed while another code is active.
C16_Witness ==
  \E code, other \in AdminInputs :
    /\ SoftDeleted(code)
    /\ \E j \in DocsOfCode(code) : admin_codes[j].level = "super_admin"
    /\ ActiveDocsOfCode(other) # {}

\* C17: add_admin_code for a code whose uppercase form is already an active
\* admin code returns failure and inserts nothing, so no state, interleaved
\* add_admin_code calls included, holds two active admin_codes documents with
\* the same uppercase code.
C17_NoTwoActiveDocumentsOfACode ==
  \A i, j \in 1..Len(admin_codes) :
    (/\ i # j
     /\ admin_codes[i].is_active
     /\ admin_codes[j].is_active)
      => admin_codes[i].code # admin_codes[j].code

\* C18: create_initial_admin_code registers a new super_admin code only when
\* no active admin code exists; with an active code it returns none and
\* leaves admin_codes as it is, for every interleaving of two bootstrap
\* calls: the calls never leave two active codes behind.
C18_BootstrapRegistersOnce ==
  count_active(admin_codes) <= 1

\* The user owns a prompt with this ID.
OwnsPrompt(user_code, prompt_id) ==
  \E j \in 1..Len(prompts) :
    prompts[j].prompt_id = prompt_id /\ prompts[j].user_code = user_code

\* C20: get_prompt_by_id / get_prompt_with_documents called with a user_code
\* returns a prompt only if it is that user's, and returns the same not-found
\* value for a prompt_id only other users own as for one that exists
\* nowhere; start_new_conversation with such a prompt_id creates no
\* conversation and does not increment the conversation counter.
C20_PromptsAreScopedToTheirOwner ==
  /\ [](\A user_code \in Users, prompt_id \in PromptIdsTried :
          LET found == get_prompt_by_id(prompts, prompt_id, user_code, TRUE)
          IN  /\ found # None => /\ found.user_code = user_code
                                 /\ found.prompt_id = prompt_id
              /\ ~ OwnsPrompt(user_code, prompt_id) => found = None)
  /\ [][\A p \in Procs :
          /\ (ret'[p] # ret[p] /\ ret'[p].op = "start_new_conversation")
               => /\ conversations' = conversations
                  /\ counters' = counters
                  /\ pc' = pc
          /\ (pc[p] = "idle" /\ pc'[p] = "insert_conversation")
               => OwnsPrompt(UserOf(p), loc'[p].prompt_id)
          /\ ~ OwnsPrompt(UserOf(p), FormatId("P", 2))
               => \A j \in 1..Len(conversations') :
                    (conversations'[j].user_code = UserOf(p))
                      => conversations'[j].prompt_id # FormatId("P", 2)]_vars

\* C20 happens: AB12C asked for a conversation from P002, which only XY34Z
\* owns, and was answered not found, while XY34Z started one from it.
C20_Witness ==
  /\ \E p \in Procs :
       /\ UserOf(p) = "AB12C"
       /\ ret[p].op = "start_new_conversation"
       /\ ret[p].prompt_id = FormatId("P", 2)
       /\ ~ OwnsPrompt("AB12C", FormatId("P", 2))
  /\ \E j \in 1..Len(conversations) :
       /\ conversations[j].user_code = "XY34Z"
       /\ conversations[j].prompt_id = FormatId("P", 2)

\* C21: the users collection holds at most one document per code, whatever
\* the interleaving of two create_user calls with the same code.
C21_OneUserDocumentPerCode ==
  \A i \in DOMAIN users, j \in DOMAIN users :
    users[i].code = users[j].code => i = j

\* Whether login_user, with the log write failing, leaves the session and
\* the answer it leaves when the write succeeds.
LoginIgnoresLog(p) ==
  LET failing == finish_login(logs, auth[p], loc[p].code, now, FALSE)
      writing == finish_login(logs, auth[p], loc[p].code, now, TRUE)
  IN  /\ failing.auth = writing.auth
      /\ failing.result = writing.result
      /\ failing.logs = logs

\* Whether a chat turn, with any of its log writes failing, stores and
\* answers what it does when they succeed.
TurnIgnoresLog(p, available) ==
  LET failing == handle_user_message(conversations, session[p].messages,
                   session[p].current_conversation, auth[p].user_code, "Hi",
                   "Explain photosynthesis", now, logs, available)
      writing == handle_user_message(conversations, session[p].messages,
                   session[p].current_conversation, auth[p].user_code, "Hi",
                   "Explain photosynthesis", now, logs, << TRUE, TRUE >>)
  IN  /\ failing.conversations = writing.conversations
      /\ failing.messages = writing.messages
      /\ failing.result = writing.result

\* The same of a conversation start.
StartIgnoresLog(p, available) ==
  LET failing == start_new_conversation(counters, conversations,
                   auth[p].user_code, FormatId("P", 1), "Explain photosynthesis",
                   now, logs, available)
      writing == start_new_conversation(counters, conversations,
                   auth[p].user_code, FormatId("P", 1), "Explain photosynthesis",
                   now, logs, << TRUE, TRUE >>)
  IN  /\ failing.counters = writing.counters
      /\ failing.conversations = writing.conversations
      /\ failing.session = writing.session
      /\ failing.result = writing.result

\* The same of a prompt creation.
CreateIgnoresLog(p, available) ==
  LET failing == create_new_prompt(counters, prompts, auth[p].user_code, "Hi",
                                   now, logs, available)
      writing == create_new_prompt(counters, prompts, auth[p].user_code, "Hi",
                                   now, logs, << TRUE, TRUE >>)
  IN  /\ failing.counters = writing.counters
      /\ failing.prompts = writing.prompts
      /\ failing.result = writing.result

\* C22: a failing audit-log write is never propagated: log_action returns
\* False without raising, and the login, prompt creation, conversation start
\* or chat turn that called it ends with the result and the store writes it
\* has when the log write succeeds.
C22_LogFailureIsNotPropagated ==
  /\ ~ log_action(logs, "AB12C", "login", now, FALSE).result
  /\ ~ log_action(logs, "AB12C", "login", now, FALSE).raised
  /\ \A p \in Procs :
       /\ ret[p].value # "raised"
       /\ pc[p] = "log_login" => LoginIgnoresLog(p)
       /\ auth[p].authenticated =>
            \A available \in LogOutcomes :
              /\ session[p].current_conversation # None =>
                   TurnIgnoresLog(p, available)
              /\ StartIgnoresLog(p, available)
              /\ CreateIgnoresLog(p, available)

\* C22 witness: a session that logged in and completed a chat turn while no
\* log write reached the store, and the turn is stored.
C22_Witness ==
  \E p \in Procs :
    /\ logs = <<>>
    /\ auth[p].authenticated
    /\ ret[p].op = "handle_user_message"
    /\ ret[p].value = "completed"
    /\ ret[p].logged = << FALSE, FALSE >>
    /\ get_conversation_messages(conversations,
         session[p].current_conversation, auth[p].user_code)
       = messages_with_tokens(session[p].messages)
    /\ Len(session[p].messages) = 3

\* The records, as a repair script left them, carry prefix + i in the order
\* of creation, pairwise distinct; the counter is their number, and the ID
\* the next save formats from the counter is held by none of them.
Renumbered(docs, field, prefix, key) ==
  /\ IsCanonical(docs, field, prefix)
  /\ \A i \in DOMAIN docs, j \in DOMAIN docs :
       docs[i][field] = docs[j][field] => i = j
  /\ counters[key] = Len(docs)
  /\ \A i \in DOMAIN docs :
       docs[i][field] # FormatId(prefix, returned_sequence(counters, key))

C24_BackfillLeavesNoDeprecatedField ==
  \A p \in Procs :
    ret[p].op = "update_prompt_token_counts" =>
      \A j \in 1..Len(ret[p].read) :
        /\ "token_count" \notin DOMAIN ret[p].after[j]
        /\ TokenFields \subseteq DOMAIN ret[p].after[j]

\* The stored documents of a counter's namespace that carry the sequence
\* number as their ID.
HoldersOf(key, sequence) ==
  IF key = ConversationKey
  THEN { j \in DOMAIN conversations :
           conversations[j].conversation_id = FormatId("C", sequence) }
  ELSE { j \in DOMAIN prompts :
           /\ PromptKey(prompts[j].user_code) = key
           /\ prompts[j].prompt_id = FormatId("P", sequence) }

\* The allocations whose insert has failed: the caller is no longer inside
\* the save, or is inside a later one, and nothing was stored.
Skipped ==
  { k \in DOMAIN issued :
      /\ HoldersOf(issued[k].key, issued[k].sequence) = {}
      /\ \/ pc[issued[k].proc] = "idle"
         \/ \E later \in DOMAIN issued :
              later > k /\ issued[later].proc = issued[k].proc }

\* A step in which the insert of a save fails: no ID is returned, no
\* document carries the allocated ID, and the counters stay.
InsertFailureKeepsCounter ==
  \A p \in Procs :
    ( /\ pc[p] \in { "insert_conversation", "insert_prompt" }
      /\ pc'[p] = "idle"
      /\ conversations' = conversations
      /\ prompts' = prompts )
    => /\ ret'[p].value = None
       /\ counters' = counters
       /\ \E k \in DOMAIN issued :
            /\ issued[k].proc = p
            /\ \A later \in DOMAIN issued :
                 issued[later].proc = p => later <= k
            /\ k \in Skipped'

TurnCompletes(p) ==
  /\ session'[p].messages # session[p].messages
  /\ ret'[p].op = "handle_user_message"
  /\ ret'[p].value = "completed"

\* C26: when two sessions hold the same conversation and each completes a
\* turn, the two update_conversation writes are not merged: after each write
\* the stored messages are exactly the message list of the session that
\* wrote, so after both the stored list is the last writer's and the other
\* session's new turn is absent.
C26_LastWriteWins ==
  [][\A p \in Procs :
       TurnCompletes(p) =>
         get_conversation_messages(conversations',
           session'[p].current_conversation, auth'[p].user_code)
         = messages_with_tokens(session'[p].messages)]_vars

\* C26 witness: both sessions loaded the conversation before either wrote,
\* each completed a turn with its own input, and the stored messages are
\* those of one session, without the input of the other.
C26_Witness ==
  \E p \in Procs, q \in Procs :
    /\ p # q
    /\ ret[p].op = "handle_user_message" /\ ret[p].value = "completed"
    /\ ret[q].op = "handle_user_message" /\ ret[q].value = "completed"
    /\ ret[p].input # ret[q].input
    /\ session[p].current_conversation = session[q].current_conversation
    /\ Len(session[p].messages) = 3
    /\ Len(session[q].messages) = 3
    /\ LET stored == get_conversation_messages(conversations,
                       session[q].current_conversation, auth[q].user_code)
       IN  /\ stored = messages_with_tokens(session[q].messages)
           /\ \A i \in DOMAIN stored : stored[i].content # ret[p].input

\* C27: is_active of an admin code only ever goes from true to false: no
\* step deletes a document of admin_codes or sets is_active back to true,
\* and a code whose documents are all soft-deleted stays without an active
\* document, so a removed code never regains admin rights.
C27_RemovedCodeStaysRemoved ==
  [][/\ Len(admin_codes') >= Len(admin_codes)
     /\ \A j \in DOMAIN admin_codes :
          /\ admin_codes'[j].code = admin_codes[j].code
          /\ admin_codes'[j].is_active => admin_codes[j].is_active
     /\ \A code \in AdminInputs :
          SoftDeleted(code) => ~ is_admin_code(admin_codes', code)]_vars

\* The prompts fix_prompt_ids read, in the order read.
RECURSIVE PromptsRead(_)
PromptsRead(groups) ==
  IF groups = <<>> THEN <<>>
  ELSE groups[1].user_prompt_list \o PromptsRead(Tail(groups))

\* The prompt document a conversation resolves to through its (user_code,
\* prompt_id) pair: the _id of what get_prompt_by_id finds, 0 for nothing.
ResolvesTo(coll, conversation) ==
  LET prompt == get_prompt_by_id(coll, conversation.prompt_id,
                                 conversation.user_code, TRUE)
  IN  IF prompt = None THEN 0 ELSE prompt._id

\* C28: once fix_prompt_ids has renumbered a user's prompts, every stored
\* conversation of the user still resolves, through its (user_code,
\* prompt_id) pair, to the prompt document it resolved to before the run.
C28_ConversationsKeepTheirPrompt ==
  (fixp.pc = "done" /\ fixp.runs = 1) =>
    \A j \in DOMAIN conversations :
      ResolvesTo(prompts, conversations[j])
      = ResolvesTo(PromptsRead(fixp.user_prompts), conversations[j])

\* Every user message of the list is followed at once by an assistant
\* message, and a list of more than one message ends with an assistant one.
TurnsArePaired(messages) ==
  /\ \A i \in DOMAIN messages :
       messages[i].role = "user" =>
         /\ i < Len(messages)
         /\ messages[i + 1].role = "assistant"
  /\ Len(messages) > 1 => messages[Len(messages)].role = "assistant"

\* C29: in every conversation the chat page has stored, after any sequence
\* of completed and failed turns of a session, every user message is
\* immediately followed by an assistant message and a list of more than one
\* message ends with an assistant message.
C29_StoredTurnsArePaired ==
  \A j \in DOMAIN conversations : TurnsArePaired(conversations[j].messages)

\* Session p takes a step of login_user that reads the user and decides.
LoginDecidesToAuthenticate(p) ==
  pc[p] = "idle" /\ pc'[p] = "authenticate_user"

LoginAsksForConsent(p) ==
  pc[p] = "idle" /\ ~ auth[p].needs_consent /\ auth'[p].needs_consent

\* The user login_user reads for a code is unknown or has refused consent.
UnknownOrRefused(code) ==
  \/ get_user_data(users, code) = None
  \/ get_user_data(users, code).data_use_consent = "False"

\* C30: login_user authenticates a session only when a user document with
\* the upper-cased, stripped code exists and its data_use_consent is not
\* False; for an unknown code or consent False it sets needs_consent and
\* temp_code, returns False and leaves authenticated and user_code as they
\* were; so an authenticated session always has a user document for its
\* user_code.
C30_AuthenticatedMeansKnownUser ==
  /\ [](\A p \in Procs :
          auth[p].authenticated =>
            /\ auth[p].user_code \in Users
            /\ get_user_data(users, auth[p].user_code) # None)
  /\ [][\A p \in Procs :
          /\ LoginDecidesToAuthenticate(p) =>
               /\ loc'[p].code \in Users
               /\ ~ UnknownOrRefused(loc'[p].code)
               /\ auth' = auth
          /\ LoginAsksForConsent(p) =>
               /\ auth'[p].temp_code \in Users
               /\ UnknownOrRefused(auth'[p].temp_code)
               /\ ret'[p].op = "login_user"
               /\ ret'[p].value = "False"
               /\ auth'[p].authenticated = auth[p].authenticated
               /\ auth'[p].user_code = auth[p].user_code
          /\ (pc[p] = "log_login" /\ auth'[p].authenticated) =>
               /\ auth'[p].user_code = loc[p].code
               /\ ret'[p].value = "True"]_vars

\* C30 witness: one session was authenticated by login_user with a known
\* code, while login_user sent the other, with an unknown code, to the
\* consent form and left it unauthenticated.
C30_Witness ==
  \E p \in Procs, q \in Procs :
    /\ auth[p].authenticated
    /\ ret[p].op = "login_user"
    /\ ret[p].value = "True"
    /\ auth[p].user_code = "AB12C"
    /\ ret[q].op = "login_user"
    /\ ret[q].value = "False"
    /\ auth[q].needs_consent
    /\ auth[q].temp_code = "XY34Z"
    /\ ~ auth[q].authenticated
    /\ get_user_data(users, "XY34Z") = None

====
